---- MODULE Spec2Model ----
(***************************************************************************)
(* Time-windowed log file rotation and retention: daily_file_sink and      *)
(* minute_file_sink of spdlog, with their filename calculators, the        *)
(* rotation boundary, the retention queue (circular_q) and the startup     *)
(* recovery of the queue from the directory.                               *)
(*                                                                         *)
(* File names are sequences of one-character strings, so that formatting,  *)
(* suffix extraction and lexicographic order are computed, not assumed.    *)
(* Time is in seconds; second 0 is 2020-01-08 00:00:00 local time, and the *)
(* model stays inside January 2020.                                        *)
(***************************************************************************)
EXTENDS Integers, Sequences, FiniteSets, TLC

(***************************************************************************)
(* Bounds of the model.                                                    *)
(***************************************************************************)
\* number of threads that call the sink
NumThreads == 2
\* number of log records fed to the sink
MaxWrites == 2
\* largest max_files the constructor is given
MaxFiles == 2
\* number of wall-clock advances
MaxTicks == 1
\* number of remove calls the operating system refuses
MaxRemoveFailures == 1

(***************************************************************************)
(* Program constants.                                                      *)
(***************************************************************************)
\* std::chrono::hours(24), in seconds
Hours24 == 24 * 3600
\* std::chrono::minutes(1), in seconds
MinuteSecs == 60
HourSecs == 60 * MinuteSecs

(***************************************************************************)
(* Characters and strings.                                                 *)
(***************************************************************************)
Digits == <<"0", "1", "2", "3", "4", "5", "6", "7", "8", "9">>

\* the code of a character, for std::string's operator<
CharCode(c) ==
    CASE c = "-" -> 45
      [] c = "." -> 46
      [] c = "0" -> 48 [] c = "1" -> 49 [] c = "2" -> 50 [] c = "3" -> 51
      [] c = "4" -> 52 [] c = "5" -> 53 [] c = "6" -> 54 [] c = "7" -> 55
      [] c = "8" -> 56 [] c = "9" -> 57
      [] c = "_" -> 95
      [] c = "d" -> 100 [] c = "e" -> 101 [] c = "t" -> 116 [] c = "u" -> 117
      [] c = "x" -> 120

RECURSIVE StrLess(_, _)
\* std::string a < b: lexicographic, a proper prefix is smaller
StrLess(a, b) ==
    IF b = <<>> THEN FALSE
    ELSE IF a = <<>> THEN TRUE
    ELSE IF CharCode(Head(a)) # CharCode(Head(b))
         THEN CharCode(Head(a)) < CharCode(Head(b))
    ELSE StrLess(Tail(a), Tail(b))

StrLeq(a, b) == a = b \/ StrLess(a, b)

RECURSIVE DecDigits(_)
\* the decimal digits of n >= 0, no padding
DecDigits(n) ==
    IF n < 10 THEN <<Digits[n + 1]>>
    ELSE DecDigits(n \div 10) \o <<Digits[(n % 10) + 1]>>

RECURSIVE ZeroPad(_, _)
\* fmt's {:0Wd}: at least w characters, zero filled on the left
ZeroPad(s, w) == IF Len(s) >= w THEN s ELSE ZeroPad(<<"0">> \o s, w)

Fmt04d(n) == ZeroPad(DecDigits(n), 4)

\* mutant of Fmt02d: {:d}, no padding
Fmt02d_NoPad(n) == DecDigits(n)

Fmt02d(n) == ZeroPad(DecDigits(n), 2)

\* the positions of character c in s
Positions(s, c) == {i \in 1..Len(s) : s[i] = c}

\* the largest element of a non-empty set of integers
MaxOf(S) == CHOOSE x \in S : \A y \in S : y <= x

StartsWith(s, p) == Len(s) >= Len(p) /\ SubSeq(s, 1, Len(p)) = p

(***************************************************************************)
(* details::file_helper::split_by_extension: <<basename, ext>>.            *)
(* No extension when there is no dot, or the dot is the first or the last  *)
(* character.  (The model has no folder separators in its names.)          *)
(***************************************************************************)
split_by_extension(fname) ==
    LET dots == Positions(fname, ".") IN
    IF dots = {} THEN <<fname, <<>> >>
    ELSE LET ext_index == MaxOf(dots) IN
         IF ext_index = 1 \/ ext_index = Len(fname) THEN <<fname, <<>> >>
         ELSE <<SubSeq(fname, 1, ext_index - 1), SubSeq(fname, ext_index, Len(fname))>>

(***************************************************************************)
(* Calendar breakdown of a time point (now_tm / os::localtime).            *)
(***************************************************************************)
now_tm(tp) ==
    [tm_year |-> 120,
     tm_mon  |-> 0,
     tm_mday |-> 8 + (tp \div Hours24),
     tm_hour |-> (tp \div HourSecs) % 24,
     tm_min  |-> (tp \div MinuteSecs) % 60,
     tm_sec  |-> tp % MinuteSecs]

\* std::mktime of a broken-down time of the model's month
mktime(tm) ==
    (tm.tm_mday - 8) * Hours24 + tm.tm_hour * HourSecs + tm.tm_min * MinuteSecs + tm.tm_sec

(***************************************************************************)
(* daily_filename_calculator                                               *)
(***************************************************************************)
filename_prefix_symbol == <<"_">>

\* basename_YYYY-MM-DD.ext
daily_calc_filename(filename, tm) ==
    LET parts == split_by_extension(filename) IN
    parts[1] \o filename_prefix_symbol \o Fmt04d(tm.tm_year + 1900) \o <<"-">>
        \o Fmt02d(tm.tm_mon + 1) \o <<"-">> \o Fmt02d(tm.tm_mday) \o parts[2]

\* mutant of extract_date_suffix: the candidate's prefix is not compared
extract_date_suffix_NoPrefixCheck(base_filename, filename) ==
    LET filename_no_ext == split_by_extension(filename)[1]
        us == Positions(filename_no_ext, "_")
    IN  IF us # {} /\ MaxOf(us) <= Len(filename_no_ext)
        THEN SubSeq(filename_no_ext, MaxOf(us) + 1, Len(filename_no_ext))
        ELSE <<>>

\* the suffix after the last '_' of the name without its extension, or ""
extract_date_suffix(base_filename, filename) ==
    LET base_filename_no_ext == split_by_extension(base_filename)[1]
        prefix == base_filename_no_ext \o filename_prefix_symbol
    IN  IF StartsWith(filename, prefix)
        THEN LET filename_no_ext == split_by_extension(filename)[1]
                 us == Positions(filename_no_ext, "_")
             IN  IF us # {} /\ MaxOf(us) <= Len(filename_no_ext)
                 THEN SubSeq(filename_no_ext, MaxOf(us) + 1, Len(filename_no_ext))
                 ELSE <<>>
        ELSE <<>>

(***************************************************************************)
(* minute_filename_calculator: basename_YYYY-MM-DD-HH_MM.ext               *)
(***************************************************************************)
minute_calc_filename(filename, tm) ==
    LET parts == split_by_extension(filename) IN
    parts[1] \o <<"_">> \o Fmt04d(tm.tm_year + 1900) \o <<"-">>
        \o Fmt02d(tm.tm_mon + 1) \o <<"-">> \o Fmt02d(tm.tm_mday) \o <<"-">>
        \o Fmt02d(tm.tm_hour) \o <<"_">> \o Fmt02d(tm.tm_min) \o parts[2]

(***************************************************************************)
(* custom_daily_file_name_calculator, a FileNameCalc supplied by a caller: *)
(* basenameYYYYMMDD, the base name taken whole; its calc_dates_to_filenames*)
(* claims no directory entry.                                              *)
(***************************************************************************)
custom_calc_filename(basename, tm) ==
    basename \o Fmt04d(tm.tm_year + 1900) \o Fmt02d(tm.tm_mon + 1) \o Fmt02d(tm.tm_mday)

\* the maps the custom calc_dates_to_filenames can return: the empty map
custom_calc_dates_to_filenames(base_filename, dir_files) == {<<>>}

\* FileNameCalc::calc_filename of daily_file_sink<Mutex, FileNameCalc>
FileNameCalc_calc_filename(calc, filename, tm) ==
    IF calc = "custom" THEN custom_calc_filename(filename, tm)
    ELSE daily_calc_filename(filename, tm)

(***************************************************************************)
(* The program's inputs.                                                   *)
(***************************************************************************)
Threads == 1..NumThreads

\* the base file name given to the constructor
BaseFilename == <<"d", ".", "t">>

\* log_clock::now() when the sink is constructed: 2020-01-08 03:00:00
StartTime == 3 * HourSecs

\* daily (rotation_hour, rotation_minute) pairs the constructor is tried with;
\* the last three are out of range
DailyRotations == {<<2, 30>>, <<23, 59>>, <<24, 0>>, <<-1, 30>>, <<2, 60>>}

\* rotation_minute values the minute sink's constructor is tried with;
\* the last two are out of range
MinuteRotations == {0, 1, 60, -1}

\* directory contents found at construction: files of earlier periods
OldDailyFiles == {daily_calc_filename(BaseFilename, now_tm(StartTime - k * Hours24)) : k \in 1..2}
OldMinuteFiles == {minute_calc_filename(BaseFilename, now_tm(StartTime - k * MinuteSecs)) : k \in 1..2}
\* a file of somebody else: its name does not start with the stem and '_'
ForeignFile ==
    <<"d", "x", "_", "2", "0", "2", "0", "-", "0", "1", "-", "0", "7", ".", "t">>

\* the directories tried: empty, or the foreign file with the newest or with
\* all of the older files
InitialDirs(old) ==
    {{}, {ForeignFile, CHOOSE f \in old : \A g \in old : StrLeq(g, f)}, {ForeignFile} \cup old}

(***************************************************************************)
(* State.                                                                  *)
(***************************************************************************)
VARIABLES
    calc_,              \* FileNameCalc of daily_file_sink: "daily" (the default) or "custom"
    calc_io,            \* arguments and results of direct calls of the filename calculators
    sink,               \* "none" before construction, then "daily", "minute" or "invalid"
    mutex_kind,         \* "mutex" (std::mutex, _mt) or "null_mutex" (_st)
    rotation_h_,
    rotation_m_,
    truncate_,
    max_files_,
    rotation_tp_,
    cur,                \* file_helper_.filename(): the file open for writing
    filenames_q_,       \* circular_q<filename_t>, oldest first
    remove_init_file_,  \* minute sink only
    now,                \* log_clock::now()
    fs,                 \* the directory: file name |-> set of record ids in the file
    holder,             \* thread that owns base_sink::mutex_, 0 when it is free
    pc,                 \* per thread: position inside its call
    msg,                \* per thread: the log_msg of its write, [time, id]
    should_rotate,      \* per thread: the local of sink_it_
    err,                \* per thread: exception the call ends with, "none" if none
    nmsg,               \* number of records fed
    ticks,              \* number of clock advances
    remove_failures,    \* number of remove calls that failed
    rm_log,             \* history: the remove calls issued, in order
    owned,              \* history: names this sink opened or had in its queue
    times,              \* history: the timestamps of the records fed, in order
    late,               \* history: a record was fed with a timestamp before now
    threw,              \* history: a call ended with an exception
    ctor_args,          \* history: what the constructor was given and found
    rotations,          \* history: number of rotations performed
    rotated_from,       \* history: the file that was open before the last rotation
    fd_,                \* file_helper_.fd_ is an open handle
    q_misuse,           \* history: push_back found the queue full, or pop_front found it empty
    android             \* android_sink: the log call in progress and the results it got

vars == <<sink, mutex_kind, rotation_h_, rotation_m_, truncate_, max_files_, rotation_tp_,
          cur, filenames_q_, remove_init_file_, now, fs, holder, pc, msg, should_rotate,
          err, nmsg, ticks, remove_failures, rm_log, owned, times, late, threw, rotations,
          ctor_args, rotated_from, calc_, calc_io, fd_, q_misuse,
          android>>

config_vars == <<android, calc_, calc_io, ctor_args, sink, mutex_kind, rotation_h_, rotation_m_, truncate_,
                 max_files_>>
thread_vars == <<holder, pc, msg, should_rotate, err>>
env_vars == <<now, ticks>>

NoMsg == [time |-> 0, id |-> 0]

\* no sink has been constructed yet
Unconstructed ==
    /\ sink = "none"
    /\ mutex_kind = "null_mutex"
    /\ rotation_h_ = 0
    /\ rotation_m_ = 0
    /\ truncate_ = FALSE
    /\ max_files_ = 0
    /\ rotation_tp_ = 0
    /\ cur = <<>>
    /\ filenames_q_ = <<>>
    /\ remove_init_file_ = FALSE
    /\ now = StartTime
    /\ fs = <<>>
    /\ holder = 0
    /\ pc = [t \in Threads |-> "idle"]
    /\ msg = [t \in Threads |-> NoMsg]
    /\ should_rotate = [t \in Threads |-> FALSE]
    /\ err = [t \in Threads |-> "none"]
    /\ nmsg = 0
    /\ ticks = 0
    /\ remove_failures = 0
    /\ rm_log = <<>>
    /\ owned = {}
    /\ times = <<>>
    /\ late = FALSE
    /\ threw = FALSE
    /\ ctor_args = <<>>
    /\ rotations = 0
    /\ rotated_from = <<>>
    /\ fd_ = FALSE
    /\ q_misuse = FALSE

\* no direct call of a filename calculator
NoCalcCall == [phase |-> "none"]

\* no android_sink in the program
NoAndroidCall == [phase |-> "none"]

\* the program instantiates daily_file_sink with the default calculator
Init == calc_ = "daily" /\ calc_io = NoCalcCall /\ android = NoAndroidCall /\ Unconstructed

\* the program instantiates daily_file_sink with the custom calculator
InitCustom ==
    calc_ = "custom" /\ calc_io = NoCalcCall /\ android = NoAndroidCall /\ Unconstructed

(***************************************************************************)
(* Collaborators: the file system and the retention queue.                 *)
(***************************************************************************)
path_exists(dir, f) == f \in DOMAIN dir

\* file_helper::open(fname, truncate): "wb" when truncate, "ab" otherwise
file_open(dir, fname, truncate) ==
    [f \in DOMAIN dir \cup {fname} |->
        IF f = fname THEN (IF f \in DOMAIN dir /\ ~truncate THEN dir[f] ELSE {})
        ELSE dir[f]]

\* file_helper::write: append to the open file (nothing to see in the
\* directory when the open file has been unlinked)
file_write(dir, fname, id) ==
    [f \in DOMAIN dir |-> IF f = fname THEN dir[f] \cup {id} ELSE dir[f]]

\* the directory after unlinking the names in S
unlink(dir, S) == [f \in DOMAIN dir \ S |-> dir[f]]

\* circular_q::full
q_full(q, cap) == cap > 0 /\ Len(q) = cap

\* circular_q::push_back: overruns the oldest item when there is no room
q_push_back(q, cap, item) ==
    IF cap = 0 THEN q
    ELSE IF Len(q) >= cap THEN Append(Tail(q), item)
    ELSE Append(q, item)

\* the entries of a sequence, as a set
Range(q) == {q[i] : i \in 1..Len(q)}

RECURSIVE SortStrings(_)
\* the strings of S in increasing lexicographic order (std::map iteration)
SortStrings(S) ==
    IF S = {} THEN <<>>
    ELSE LET least == CHOOSE x \in S : \A y \in S : StrLeq(x, y)
         IN  <<least>> \o SortStrings(S \ {least})

(***************************************************************************)
(* daily_file_sink: boundary, recovery, constructor.                       *)
(***************************************************************************)
\* mutant of daily_next_rotation_tp_: a rotation time equal to now is returned as it is
daily_next_rotation_tp_Inclusive(tnow, h, m) ==
    LET date == [now_tm(tnow) EXCEPT !.tm_hour = h, !.tm_min = m, !.tm_sec = 0]
        rotation_time == mktime(date)
    IN  IF rotation_time >= tnow THEN rotation_time ELSE rotation_time + Hours24

\* today at rotation_h_:rotation_m_:00 when that is after now, else 24h later
daily_next_rotation_tp_(tnow, h, m) ==
    LET date == [now_tm(tnow) EXCEPT !.tm_hour = h, !.tm_min = m, !.tm_sec = 0]
        rotation_time == mktime(date)
    IN  IF rotation_time > tnow THEN rotation_time ELSE rotation_time + Hours24

\* the maps calc_dates_to_filenames can return for a directory: date suffix
\* |-> file name; of two entries with one suffix the one listed last stays,
\* and the listing order is not specified
calc_dates_to_filenames(base_filename, dir_files) ==
    LET matching == {f \in dir_files : extract_date_suffix(base_filename, f) # <<>>}
        dates == {extract_date_suffix(base_filename, f) : f \in matching}
    IN  {m \in [dates -> matching] :
            \A date \in dates : extract_date_suffix(base_filename, m[date]) = date}

\* mutant of first_valid_file_pos: off by one
first_valid_file_pos_OffByOne(n, max_files) ==
    IF max_files > 0 /\ n > max_files THEN n - max_files - 1 ELSE 0

\* init_filenames_q_, given the map: the position of the first retained entry
first_valid_file_pos(n, max_files) ==
    IF max_files > 0 /\ n > max_files THEN n - max_files ELSE 0

RECURSIVE push_all(_, _, _)
\* push_back every entry of seq, in order
push_all(q, cap, seq) ==
    IF seq = <<>> THEN q ELSE push_all(q_push_back(q, cap, Head(seq)), cap, Tail(seq))

\* mutant of daily_init_recent_files: every file of the map is pushed, the
\* older ones included
daily_init_recent_files_All(dates_to_filenames, dir, max_files) ==
    LET dates == SortStrings(DOMAIN dates_to_filenames)
        recent_files == [i \in 1..Len(dates) |-> dates_to_filenames[dates[i]]]
    IN  SelectSeq(recent_files, LAMBDA f : path_exists(dir, f))

\* mutant of daily_init_recent_files: the entries are pushed without asking
\* path_exists
daily_init_recent_files_NoExistCheck(dates_to_filenames, dir, max_files) ==
    LET dates == SortStrings(DOMAIN dates_to_filenames)
        pos == first_valid_file_pos(Len(dates), max_files)
    IN  [i \in 1..(Len(dates) - pos) |-> dates_to_filenames[dates[pos + i]]]

\* init_filenames_q_: the entries of recent_files it pushes, in order, for the
\* directory dir
daily_init_recent_files(dates_to_filenames, dir, max_files) ==
    LET dates == SortStrings(DOMAIN dates_to_filenames)
        pos == first_valid_file_pos(Len(dates), max_files)
        recent_files == [i \in 1..(Len(dates) - pos) |-> dates_to_filenames[dates[pos + i]]]
    IN  SelectSeq(recent_files, LAMBDA f : path_exists(dir, f))

RECURSIVE push_misuse(_, _, _)
\* pushing every entry of seq, some push_back finds the queue full
push_misuse(q, cap, seq) ==
    IF seq = <<>> THEN FALSE
    ELSE q_full(q, cap) \/ push_misuse(q_push_back(q, cap, Head(seq)), cap, Tail(seq))

\* init_filenames_q_: the queue it builds from the map, for the directory dir
daily_init_queue(dates_to_filenames, dir, max_files) ==
    push_all(<<>>, max_files, daily_init_recent_files(dates_to_filenames, dir, max_files))

\* init_filenames_q_: the files it hands to remove_if_exists, oldest first
daily_init_old_files(dates_to_filenames, max_files, delete_old_file_on_init) ==
    LET dates == SortStrings(DOMAIN dates_to_filenames)
        pos == first_valid_file_pos(Len(dates), max_files)
    IN  IF max_files > 0 /\ delete_old_file_on_init
        THEN [i \in 1..pos |-> dates_to_filenames[dates[i]]]
        ELSE <<>>

\* the rm_log entries of a sequence of remove calls of which those in failed fail
RemoveCalls(names, failed, by) ==
    [i \in 1..Len(names) |-> [name |-> names[i], ok |-> names[i] \notin failed, by |-> by]]

\* mutant of DailyCtor: a refused removal leaves the queue unseeded
DailyCtor_CleanupFailureUnseeds ==
    /\ sink = "none"
    /\ \E rot \in DailyRotations, trunc \in BOOLEAN, maxf \in 0..MaxFiles,
          delete_old_files_on_init \in BOOLEAN, mk \in {"mutex", "null_mutex"},
          initial_file_tp \in {now, now + Hours24}, d \in InitialDirs(OldDailyFiles) :
        LET rotation_hour == rot[1]
            rotation_minute == rot[2]
            dir0 == [f \in d |-> {0}]
        IN
        IF rotation_hour < 0 \/ rotation_hour > 23 \/ rotation_minute < 0 \/ rotation_minute > 59
        THEN \* throw_spdlog_ex("daily_file_sink: Invalid rotation time in ctor")
             /\ sink' = "invalid"
             /\ fs' = dir0
             /\ ctor_args' = [dir |-> d, filename |-> <<>>, initial_file_tp |-> initial_file_tp,
                              delete_old_files_on_init |-> FALSE]
             /\ UNCHANGED <<mutex_kind, rotation_h_, rotation_m_, truncate_, max_files_,
                            rotation_tp_, cur, filenames_q_, remove_init_file_,
                            remove_failures, rm_log, owned, fd_, q_misuse>>
        ELSE LET filename == FileNameCalc_calc_filename(calc_, BaseFilename,
                                                        now_tm(initial_file_tp))
                 dir1 == file_open(dir0, filename, trunc)
             IN
             /\ sink' = "daily"
             /\ ctor_args' = [dir |-> d, filename |-> filename,
                              initial_file_tp |-> initial_file_tp,
                              delete_old_files_on_init |-> maxf > 0 /\ delete_old_files_on_init]
             /\ mutex_kind' = mk
             /\ rotation_h_' = rotation_hour
             /\ rotation_m_' = rotation_minute
             /\ truncate_' = trunc
             /\ max_files_' = maxf
             /\ cur' = filename
             /\ fd_' = TRUE
             /\ rotation_tp_' = daily_next_rotation_tp_(now, rotation_hour, rotation_minute)
             /\ remove_init_file_' = FALSE
             /\ IF maxf > 0
                THEN \E m \in calc_dates_to_filenames(BaseFilename, DOMAIN dir1) :
                       LET old == daily_init_old_files(m, maxf, delete_old_files_on_init) IN
                       \E failed \in SUBSET Range(old) :
                          /\ Cardinality(failed) <= MaxRemoveFailures
                          /\ q_misuse' = push_misuse(<<>>, maxf, daily_init_recent_files(m, dir1, maxf))
                          /\ filenames_q_' = IF failed = {} THEN daily_init_queue(m, dir1, maxf)
                                             ELSE <<>>
                          /\ fs' = unlink(dir1, Range(old) \ failed)
                          /\ remove_failures' = Cardinality(failed)
                          /\ rm_log' = RemoveCalls(old, failed, "init")
                          /\ owned' = {filename} \cup Range(filenames_q_')
                ELSE /\ filenames_q_' = <<>>
                     /\ fs' = dir1
                     /\ owned' = {filename}
                     /\ UNCHANGED <<remove_failures, rm_log, q_misuse>>
    /\ UNCHANGED <<android, calc_, calc_io, thread_vars, env_vars, nmsg, times, late, threw, rotations,
                   rotated_from>>

\* daily_file_sink::daily_file_sink
DailyCtor ==
    /\ sink = "none"
    /\ \E rot \in DailyRotations, trunc \in BOOLEAN, maxf \in 0..MaxFiles,
          delete_old_files_on_init \in BOOLEAN, mk \in {"mutex", "null_mutex"},
          initial_file_tp \in {now, now + Hours24}, d \in InitialDirs(OldDailyFiles) :
        LET rotation_hour == rot[1]
            rotation_minute == rot[2]
            dir0 == [f \in d |-> {0}]
        IN
        IF rotation_hour < 0 \/ rotation_hour > 23 \/ rotation_minute < 0 \/ rotation_minute > 59
        THEN \* throw_spdlog_ex("daily_file_sink: Invalid rotation time in ctor")
             /\ sink' = "invalid"
             /\ fs' = dir0
             /\ ctor_args' = [dir |-> d, filename |-> <<>>, initial_file_tp |-> initial_file_tp,
                              delete_old_files_on_init |-> FALSE]
             /\ UNCHANGED <<mutex_kind, rotation_h_, rotation_m_, truncate_, max_files_,
                            rotation_tp_, cur, filenames_q_, remove_init_file_,
                            remove_failures, rm_log, owned, fd_, q_misuse>>
        ELSE LET filename == FileNameCalc_calc_filename(calc_, BaseFilename,
                                                        now_tm(initial_file_tp))
                 dir1 == file_open(dir0, filename, trunc)
             IN
             /\ sink' = "daily"
             /\ ctor_args' = [dir |-> d, filename |-> filename,
                              initial_file_tp |-> initial_file_tp,
                              delete_old_files_on_init |-> maxf > 0 /\ delete_old_files_on_init]
             /\ mutex_kind' = mk
             /\ rotation_h_' = rotation_hour
             /\ rotation_m_' = rotation_minute
             /\ truncate_' = trunc
             /\ max_files_' = maxf
             /\ cur' = filename
             /\ fd_' = TRUE
             /\ rotation_tp_' = daily_next_rotation_tp_(now, rotation_hour, rotation_minute)
             /\ remove_init_file_' = FALSE
             /\ IF maxf > 0
                THEN \E m \in calc_dates_to_filenames(BaseFilename, DOMAIN dir1) :
                       LET old == daily_init_old_files(m, maxf, delete_old_files_on_init) IN
                       \E failed \in SUBSET Range(old) :
                          /\ Cardinality(failed) <= MaxRemoveFailures
                          /\ q_misuse' = push_misuse(<<>>, maxf, daily_init_recent_files(m, dir1, maxf))
                          /\ filenames_q_' = daily_init_queue(m, dir1, maxf)
                          /\ fs' = unlink(dir1, Range(old) \ failed)
                          /\ remove_failures' = Cardinality(failed)
                          /\ rm_log' = RemoveCalls(old, failed, "init")
                          /\ owned' = {filename} \cup Range(filenames_q_')
                ELSE /\ filenames_q_' = <<>>
                     /\ fs' = dir1
                     /\ owned' = {filename}
                     /\ UNCHANGED <<remove_failures, rm_log, q_misuse>>
    /\ UNCHANGED <<android, calc_, calc_io, thread_vars, env_vars, nmsg, times, late, threw, rotations,
                   rotated_from>>

(***************************************************************************)
(* minute_file_sink: boundary, recovery, constructor.                      *)
(***************************************************************************)
\* the start of the current minute when that is after now, else
\* rotation_m_ minutes later
minute_next_rotation_tp_(tnow, m) ==
    LET date == [now_tm(tnow) EXCEPT !.tm_sec = 0]
        rotation_time == mktime(date)
    IN  IF rotation_time > tnow THEN rotation_time ELSE rotation_time + m * MinuteSecs

RECURSIVE minute_walk(_, _, _, _, _)
\* init_filenames_q_, the while loop: the names collected walking back from
\* tp in steps of rotation_m_ minutes while the file exists, newest first
minute_walk(filenames, tp, dir, max_files, m) ==
    IF Len(filenames) < max_files
    THEN LET filename == minute_calc_filename(BaseFilename, now_tm(tp)) IN
         IF ~path_exists(dir, filename) THEN filenames
         ELSE minute_walk(Append(filenames, filename), tp - m * MinuteSecs, dir, max_files, m)
    ELSE filenames

\* mutant of Reverse: the names are pushed in the order they were collected,
\* newest first
Reverse_NewestFirst(seq) == seq

\* a sequence, reversed
Reverse(seq) == [i \in 1..Len(seq) |-> seq[Len(seq) + 1 - i]]

\* init_filenames_q_: the queue it builds
minute_init_queue(tnow, dir, max_files, m) ==
    push_all(<<>>, max_files, Reverse(minute_walk(<<>>, tnow, dir, max_files, m)))

\* mutant of MinuteCtor: the file is opened before rotation_minute is validated
MinuteCtor_OpenFirst ==
    /\ sink = "none"
    /\ \E rotation_minute \in MinuteRotations, trunc \in BOOLEAN, maxf \in 0..MaxFiles,
          mk \in {"mutex", "null_mutex"}, d \in InitialDirs(OldMinuteFiles) :
        LET dir0 == [f \in d |-> {0}] IN
        IF rotation_minute < 0 \/ rotation_minute > 59
        THEN \* throw_spdlog_ex("daily_file_sink: Invalid rotation time in ctor")
             /\ sink' = "invalid"
             /\ fs' = file_open(dir0, minute_calc_filename(BaseFilename, now_tm(now)), trunc)
             /\ ctor_args' = [dir |-> d, filename |-> <<>>, initial_file_tp |-> now,
                              delete_old_files_on_init |-> FALSE]
             /\ UNCHANGED <<mutex_kind, rotation_h_, rotation_m_, truncate_, max_files_,
                            rotation_tp_, cur, filenames_q_, remove_init_file_, owned,
                            fd_, q_misuse>>
        ELSE LET filename == minute_calc_filename(BaseFilename, now_tm(now))
                 dir1 == file_open(dir0, filename, trunc)
             IN
             /\ sink' = "minute"
             /\ ctor_args' = [dir |-> d, filename |-> filename, initial_file_tp |-> now,
                              delete_old_files_on_init |-> FALSE]
             /\ mutex_kind' = mk
             /\ rotation_h_' = 0
             /\ rotation_m_' = rotation_minute
             /\ truncate_' = trunc
             /\ max_files_' = maxf
             /\ cur' = filename
             /\ fd_' = TRUE
             /\ fs' = dir1
             /\ remove_init_file_' = (dir1[filename] = {})
             /\ rotation_tp_' = minute_next_rotation_tp_(now, rotation_minute)
             /\ filenames_q_' = IF maxf > 0
                                THEN minute_init_queue(now, dir1, maxf, rotation_minute)
                                ELSE <<>>
             /\ q_misuse' = (maxf > 0 /\ push_misuse(<<>>, maxf,
                                Reverse(minute_walk(<<>>, now, dir1, maxf, rotation_minute))))
             /\ owned' = {filename} \cup Range(filenames_q_')
    /\ UNCHANGED <<android, calc_, calc_io, thread_vars, env_vars, nmsg, remove_failures, rm_log, times,
                   late, threw, rotations, rotated_from>>

\* minute_file_sink::minute_file_sink
MinuteCtor ==
    /\ sink = "none"
    /\ \E rotation_minute \in MinuteRotations, trunc \in BOOLEAN, maxf \in 0..MaxFiles,
          mk \in {"mutex", "null_mutex"}, d \in InitialDirs(OldMinuteFiles) :
        LET dir0 == [f \in d |-> {0}] IN
        IF rotation_minute < 0 \/ rotation_minute > 59
        THEN \* throw_spdlog_ex("daily_file_sink: Invalid rotation time in ctor")
             /\ sink' = "invalid"
             /\ fs' = dir0
             /\ ctor_args' = [dir |-> d, filename |-> <<>>, initial_file_tp |-> now,
                              delete_old_files_on_init |-> FALSE]
             /\ UNCHANGED <<mutex_kind, rotation_h_, rotation_m_, truncate_, max_files_,
                            rotation_tp_, cur, filenames_q_, remove_init_file_, owned,
                            fd_, q_misuse>>
        ELSE LET filename == minute_calc_filename(BaseFilename, now_tm(now))
                 dir1 == file_open(dir0, filename, trunc)
             IN
             /\ sink' = "minute"
             /\ ctor_args' = [dir |-> d, filename |-> filename, initial_file_tp |-> now,
                              delete_old_files_on_init |-> FALSE]
             /\ mutex_kind' = mk
             /\ rotation_h_' = 0
             /\ rotation_m_' = rotation_minute
             /\ truncate_' = trunc
             /\ max_files_' = maxf
             /\ cur' = filename
             /\ fd_' = TRUE
             /\ fs' = dir1
             /\ remove_init_file_' = (dir1[filename] = {})
             /\ rotation_tp_' = minute_next_rotation_tp_(now, rotation_minute)
             /\ filenames_q_' = IF maxf > 0
                                THEN minute_init_queue(now, dir1, maxf, rotation_minute)
                                ELSE <<>>
             /\ q_misuse' = (maxf > 0 /\ push_misuse(<<>>, maxf,
                                Reverse(minute_walk(<<>>, now, dir1, maxf, rotation_minute))))
             /\ owned' = {filename} \cup Range(filenames_q_')
    /\ UNCHANGED <<android, calc_, calc_io, thread_vars, env_vars, nmsg, remove_failures, rm_log, times,
                   late, threw, rotations, rotated_from>>

(***************************************************************************)
(* The calls of the threads.  base_sink<Mutex>::log and ::flush take       *)
(* mutex_ (std::lock_guard) and call sink_it_ / flush_; filename() takes   *)
(* it itself.  With null_mutex the caller guarantees a single thread.      *)
(***************************************************************************)
Constructed == sink \in {"daily", "minute"}

\* the rotation period of the policy, in seconds
Period == IF sink = "minute" THEN MinuteSecs ELSE Hours24

\* the steps the wall clock advances by
ClockStep == Period

\* timestamps a record is fed with
MsgTimes == {now, now + Period, rotation_tp_}

\* std::lock_guard<Mutex> lock(mutex_) can return for thread t
CanLock(t) ==
    /\ Constructed
    /\ pc[t] = "idle"
    /\ IF mutex_kind = "mutex" THEN holder = 0 ELSE t = 1

Locked(t) == IF mutex_kind = "mutex" THEN t ELSE holder

\* base_sink::log(msg): lock, then sink_it_(msg)
LogLock(t) ==
    /\ CanLock(t)
    /\ nmsg < MaxWrites
    /\ \E time \in MsgTimes :
         /\ msg' = [msg EXCEPT ![t] = [time |-> time, id |-> nmsg + 1]]
         /\ times' = Append(times, time)
         /\ late' = (late \/ time < now)
    /\ nmsg' = nmsg + 1
    /\ holder' = Locked(t)
    /\ pc' = [pc EXCEPT ![t] = "sink_it_"]
    /\ UNCHANGED <<config_vars, env_vars, rotation_tp_, cur, filenames_q_, remove_init_file_,
                   fs, should_rotate, err, remove_failures, rm_log, owned, rotations, rotated_from, threw, fd_, q_misuse>>

\* mutant of DailyRotate: the comparison with the boundary is inverted
DailyRotate_Inverted(t) ==
    /\ sink = "daily"
    /\ pc[t] = "sink_it_"
    /\ LET time == msg[t].time
           rotate == time < rotation_tp_
       IN
       /\ should_rotate' = [should_rotate EXCEPT ![t] = rotate]
       /\ IF rotate
          THEN LET filename == FileNameCalc_calc_filename(calc_, BaseFilename, now_tm(time)) IN
               /\ fs' = file_open(fs, filename, truncate_)
               /\ cur' = filename
               /\ fd_' = TRUE
               /\ rotation_tp_' = daily_next_rotation_tp_(now, rotation_h_, rotation_m_)
               /\ owned' = owned \cup {filename}
               /\ rotations' = rotations + 1
               /\ rotated_from' = cur
          ELSE UNCHANGED <<fd_, fs, cur, rotation_tp_, owned, rotations, rotated_from>>
    /\ pc' = [pc EXCEPT ![t] = "write"]
    /\ UNCHANGED <<config_vars, env_vars, filenames_q_, remove_init_file_, holder, msg, err,
                   nmsg, remove_failures, rm_log, times, late, threw, q_misuse>>

\* mutant of DailyRotate: the rotation also opens the file of the period that
\* began at the boundary, catching up period by period
DailyRotate_CatchUp(t) ==
    /\ sink = "daily"
    /\ pc[t] = "sink_it_"
    /\ LET time == msg[t].time
           rotate == time >= rotation_tp_
       IN
       /\ should_rotate' = [should_rotate EXCEPT ![t] = rotate]
       /\ IF rotate
          THEN LET filename == FileNameCalc_calc_filename(calc_, BaseFilename, now_tm(time))
                   missed == FileNameCalc_calc_filename(calc_, BaseFilename, now_tm(rotation_tp_))
               IN
               /\ fs' = file_open(file_open(fs, missed, truncate_), filename, truncate_)
               /\ cur' = filename
               /\ fd_' = TRUE
               /\ rotation_tp_' = daily_next_rotation_tp_(now, rotation_h_, rotation_m_)
               /\ owned' = owned \cup {filename}
               /\ rotations' = rotations + 1
               /\ rotated_from' = cur
          ELSE UNCHANGED <<fd_, fs, cur, rotation_tp_, owned, rotations, rotated_from>>
    /\ pc' = [pc EXCEPT ![t] = "write"]
    /\ UNCHANGED <<config_vars, env_vars, filenames_q_, remove_init_file_, holder, msg, err,
                   nmsg, remove_failures, rm_log, times, late, threw, q_misuse>>

\* mutant of DailyRotate: the next boundary is computed from the record's timestamp
DailyRotate_BoundaryFromRecord(t) ==
    /\ sink = "daily"
    /\ pc[t] = "sink_it_"
    /\ LET time == msg[t].time
           rotate == time >= rotation_tp_
       IN
       /\ should_rotate' = [should_rotate EXCEPT ![t] = rotate]
       /\ IF rotate
          THEN LET filename == FileNameCalc_calc_filename(calc_, BaseFilename, now_tm(time)) IN
               /\ fs' = file_open(fs, filename, truncate_)
               /\ cur' = filename
               /\ fd_' = TRUE
               /\ rotation_tp_' = daily_next_rotation_tp_(time, rotation_h_, rotation_m_)
               /\ owned' = owned \cup {filename}
               /\ rotations' = rotations + 1
               /\ rotated_from' = cur
          ELSE UNCHANGED <<fd_, fs, cur, rotation_tp_, owned, rotations, rotated_from>>
    /\ pc' = [pc EXCEPT ![t] = "write"]
    /\ UNCHANGED <<config_vars, env_vars, filenames_q_, remove_init_file_, holder, msg, err,
                   nmsg, remove_failures, rm_log, times, late, threw, q_misuse>>

\* daily_file_sink::sink_it_, the rotation
DailyRotate(t) ==
    /\ sink = "daily"
    /\ pc[t] = "sink_it_"
    /\ LET time == msg[t].time
           rotate == time >= rotation_tp_
       IN
       /\ should_rotate' = [should_rotate EXCEPT ![t] = rotate]
       /\ IF rotate
          THEN LET filename == FileNameCalc_calc_filename(calc_, BaseFilename, now_tm(time)) IN
               /\ fs' = file_open(fs, filename, truncate_)
               /\ cur' = filename
               /\ fd_' = TRUE
               /\ rotation_tp_' = daily_next_rotation_tp_(now, rotation_h_, rotation_m_)
               /\ owned' = owned \cup {filename}
               /\ rotations' = rotations + 1
               /\ rotated_from' = cur
          ELSE UNCHANGED <<fd_, fs, cur, rotation_tp_, owned, rotations, rotated_from>>
    /\ pc' = [pc EXCEPT ![t] = "write"]
    /\ UNCHANGED <<config_vars, env_vars, filenames_q_, remove_init_file_, holder, msg, err,
                   nmsg, remove_failures, rm_log, times, late, threw, q_misuse>>

\* mutant of MinuteRotate: remove_init_file_ is not cleared after the first write
MinuteRotate_KeepFlag(t) ==
    /\ sink = "minute"
    /\ pc[t] = "sink_it_"
    /\ LET time == msg[t].time
           rotate == time >= rotation_tp_
       IN
       /\ should_rotate' = [should_rotate EXCEPT ![t] = rotate]
       /\ IF rotate
          THEN LET filename == minute_calc_filename(BaseFilename, now_tm(time))
                   dir1 == IF remove_init_file_ THEN unlink(fs, {cur}) ELSE fs
               IN
               /\ fs' = file_open(dir1, filename, truncate_)
               /\ rm_log' = IF remove_init_file_
                            THEN Append(rm_log, [name |-> cur, ok |-> TRUE, by |-> "init_file"])
                            ELSE rm_log
               /\ cur' = filename
               /\ fd_' = TRUE
               /\ rotation_tp_' = minute_next_rotation_tp_(now, rotation_m_)
               /\ owned' = owned \cup {filename}
               /\ rotations' = rotations + 1
               /\ rotated_from' = cur
          ELSE UNCHANGED <<fd_, fs, cur, rotation_tp_, owned, rotations, rotated_from, rm_log>>
    /\ pc' = [pc EXCEPT ![t] = "write"]
    /\ UNCHANGED <<config_vars, env_vars, filenames_q_, holder, msg, err, nmsg, times,
                   late, threw, q_misuse, remove_init_file_, remove_failures>>

\* minute_file_sink::sink_it_, the rotation
MinuteRotate(t) ==
    /\ sink = "minute"
    /\ pc[t] = "sink_it_"
    /\ LET time == msg[t].time
           rotate == time >= rotation_tp_
       IN
       /\ should_rotate' = [should_rotate EXCEPT ![t] = rotate]
       /\ IF rotate
          THEN LET filename == minute_calc_filename(BaseFilename, now_tm(time)) IN
               \E removed \in (IF remove_init_file_ /\ path_exists(fs, cur)
                                  /\ remove_failures < MaxRemoveFailures
                               THEN BOOLEAN ELSE {TRUE}) :
                  LET dir1 == IF remove_init_file_ /\ removed THEN unlink(fs, {cur}) ELSE fs IN
                  /\ fs' = file_open(dir1, filename, truncate_)
                  /\ rm_log' = IF remove_init_file_
                               THEN Append(rm_log, [name |-> cur, ok |-> removed, by |-> "init_file"])
                               ELSE rm_log
                  /\ remove_failures' = IF removed THEN remove_failures ELSE remove_failures + 1
                  /\ cur' = filename
                  /\ fd_' = TRUE
                  /\ rotation_tp_' = minute_next_rotation_tp_(now, rotation_m_)
                  /\ owned' = owned \cup {filename}
                  /\ rotations' = rotations + 1
                  /\ rotated_from' = cur
          ELSE UNCHANGED <<fd_, fs, cur, rotation_tp_, owned, rotations, rotated_from, rm_log, remove_failures>>
    /\ remove_init_file_' = FALSE
    /\ pc' = [pc EXCEPT ![t] = "write"]
    /\ UNCHANGED <<config_vars, env_vars, filenames_q_, holder, msg, err, nmsg, times,
                   late, threw, q_misuse>>

\* mutant of SinkWrite: the cleaning runs first, the record is written after it
SinkWrite_CleanFirst(t) ==
    /\ pc[t] = "write"
    /\ fs' = IF should_rotate[t] /\ max_files_ > 0 THEN fs ELSE file_write(fs, cur, msg[t].id)
    /\ pc' = [pc EXCEPT ![t] =
                IF should_rotate[t] /\ max_files_ > 0
                THEN (IF sink = "daily" THEN "filename" ELSE "delete_old_")
                ELSE "unlock"]
    /\ UNCHANGED <<config_vars, env_vars, rotation_tp_, cur, filenames_q_, remove_init_file_,
                   holder, msg, should_rotate, err, nmsg, remove_failures, rm_log, owned,
                   times, late, threw, fd_, q_misuse, rotations, rotated_from>>

\* mutant of SinkWrite: the cleaning runs after every write, rotated or not
SinkWrite_AlwaysClean(t) ==
    /\ pc[t] = "write"
    /\ fs' = file_write(fs, cur, msg[t].id)
    /\ pc' = [pc EXCEPT ![t] =
                IF max_files_ > 0
                THEN (IF sink = "daily" THEN "filename" ELSE "delete_old_")
                ELSE "unlock"]
    /\ UNCHANGED <<config_vars, env_vars, rotation_tp_, cur, filenames_q_, remove_init_file_,
                   holder, msg, should_rotate, err, nmsg, remove_failures, rm_log, owned,
                   times, late, threw, fd_, q_misuse, rotations, rotated_from>>

\* sink_it_, after the rotation: format the record and write it to the file
SinkWrite(t) ==
    /\ pc[t] = "write"
    /\ fd_
    /\ fs' = file_write(fs, cur, msg[t].id)
    /\ pc' = [pc EXCEPT ![t] =
                IF should_rotate[t] /\ max_files_ > 0
                THEN (IF sink = "daily" THEN "filename" ELSE "delete_old_")
                ELSE "unlock"]
    /\ UNCHANGED <<config_vars, env_vars, rotation_tp_, cur, filenames_q_, remove_init_file_,
                   holder, msg, should_rotate, err, nmsg, remove_failures, rm_log, owned,
                   times, late, threw, fd_, q_misuse, rotations, rotated_from>>

\* daily_file_sink::delete_old_, its first statement: filename(), which takes
\* mutex_ again.  Locking a std::mutex the thread already owns is undefined:
\* the thread blocks for ever, or lock() throws std::system_error.
DailyFilenameRelock(t) ==
    /\ sink = "daily"
    /\ pc[t] = "filename"
    /\ IF mutex_kind = "mutex"
       THEN \/ /\ pc' = [pc EXCEPT ![t] = "blocked"]
               /\ UNCHANGED err
            \/ /\ pc' = [pc EXCEPT ![t] = "unlock"]
               /\ err' = [err EXCEPT ![t] = "system_error"]
       ELSE /\ pc' = [pc EXCEPT ![t] = "delete_old_"]
            /\ UNCHANGED err
    /\ UNCHANGED <<config_vars, env_vars, rotation_tp_, cur, filenames_q_, remove_init_file_,
                   fs, holder, msg, should_rotate, nmsg, remove_failures, rm_log, owned,
                   times, late, threw, fd_, q_misuse, rotations, rotated_from>>

\* mutant of DeleteOld: the full queue is not emptied by one, the push overruns it
DeleteOld_NoEvict(t) ==
    /\ pc[t] = "delete_old_"
    /\ filenames_q_' = q_push_back(filenames_q_, max_files_, cur)
    /\ q_misuse' = (q_misuse \/ q_full(filenames_q_, max_files_))
    /\ owned' = owned \cup {cur}
    /\ pc' = [pc EXCEPT ![t] = "unlock"]
    /\ UNCHANGED <<config_vars, env_vars, rotation_tp_, cur, remove_init_file_, holder, msg,
                   should_rotate, nmsg, times, late, threw, fd_, rotations, rotated_from, fs, err,
                   remove_failures, rm_log>>

\* mutant of DeleteOld: the name pushed is the file that was open before the rotation
DeleteOld_PushPrevious(t) ==
    /\ pc[t] = "delete_old_"
    /\ LET current_file == rotated_from IN
       IF q_full(filenames_q_, max_files_)
       THEN LET old_filename == Head(filenames_q_)
                popped == Tail(filenames_q_)
            IN
            \E ok \in (IF path_exists(fs, old_filename) /\ remove_failures < MaxRemoveFailures
                       THEN BOOLEAN ELSE {TRUE}) :
               /\ rm_log' = Append(rm_log, [name |-> old_filename, ok |-> ok, by |-> "delete_old_"])
               /\ filenames_q_' = q_push_back(popped, max_files_, current_file)
               /\ IF ok
                  THEN /\ fs' = unlink(fs, {old_filename})
                       /\ UNCHANGED <<err, remove_failures>>
                  ELSE \* throw_spdlog_ex("Failed removing daily file ...", errno)
                       /\ err' = [err EXCEPT ![t] = "remove_failed"]
                       /\ remove_failures' = remove_failures + 1
                       /\ UNCHANGED fs
       ELSE /\ filenames_q_' = q_push_back(filenames_q_, max_files_, current_file)
            /\ UNCHANGED <<fs, err, remove_failures, rm_log>>
    /\ q_misuse' = (q_misuse \/ IF q_full(filenames_q_, max_files_)
                                THEN filenames_q_ = <<>> \/ q_full(Tail(filenames_q_), max_files_)
                                ELSE q_full(filenames_q_, max_files_))
    /\ owned' = owned \cup {cur}
    /\ pc' = [pc EXCEPT ![t] = "unlock"]
    /\ UNCHANGED <<config_vars, env_vars, rotation_tp_, cur, remove_init_file_, holder, msg,
                   should_rotate, nmsg, times, late, threw, fd_, rotations, rotated_from>>

\* mutant of DeleteOld: the entry taken from the full queue and removed is the newest
DeleteOld_EvictNewest(t) ==
    /\ pc[t] = "delete_old_"
    /\ LET current_file == cur IN
       IF q_full(filenames_q_, max_files_)
       THEN LET old_filename == filenames_q_[Len(filenames_q_)]
                popped == SubSeq(filenames_q_, 1, Len(filenames_q_) - 1)
            IN
            \E ok \in (IF path_exists(fs, old_filename) /\ remove_failures < MaxRemoveFailures
                       THEN BOOLEAN ELSE {TRUE}) :
               /\ rm_log' = Append(rm_log, [name |-> old_filename, ok |-> ok, by |-> "delete_old_"])
               /\ filenames_q_' = q_push_back(popped, max_files_, current_file)
               /\ IF ok
                  THEN /\ fs' = unlink(fs, {old_filename})
                       /\ UNCHANGED <<err, remove_failures>>
                  ELSE \* throw_spdlog_ex("Failed removing daily file ...", errno)
                       /\ err' = [err EXCEPT ![t] = "remove_failed"]
                       /\ remove_failures' = remove_failures + 1
                       /\ UNCHANGED fs
       ELSE /\ filenames_q_' = q_push_back(filenames_q_, max_files_, current_file)
            /\ UNCHANGED <<fs, err, remove_failures, rm_log>>
    /\ q_misuse' = (q_misuse \/ IF q_full(filenames_q_, max_files_)
                                THEN filenames_q_ = <<>> \/ q_full(Tail(filenames_q_), max_files_)
                                ELSE q_full(filenames_q_, max_files_))
    /\ owned' = owned \cup {cur}
    /\ pc' = [pc EXCEPT ![t] = "unlock"]
    /\ UNCHANGED <<config_vars, env_vars, rotation_tp_, cur, remove_init_file_, holder, msg,
                   should_rotate, nmsg, times, late, threw, fd_, rotations, rotated_from>>

\* delete_old_ of both sinks, from the test of filenames_q_.full() on
DeleteOld(t) ==
    /\ pc[t] = "delete_old_"
    /\ LET current_file == cur IN
       IF q_full(filenames_q_, max_files_)
       THEN LET old_filename == Head(filenames_q_)
                popped == Tail(filenames_q_)
            IN
            \E ok \in (IF path_exists(fs, old_filename) /\ remove_failures < MaxRemoveFailures
                       THEN BOOLEAN ELSE {TRUE}) :
               /\ rm_log' = Append(rm_log, [name |-> old_filename, ok |-> ok, by |-> "delete_old_"])
               /\ filenames_q_' = q_push_back(popped, max_files_, current_file)
               /\ IF ok
                  THEN /\ fs' = unlink(fs, {old_filename})
                       /\ UNCHANGED <<err, remove_failures>>
                  ELSE \* throw_spdlog_ex("Failed removing daily file ...", errno)
                       /\ err' = [err EXCEPT ![t] = "remove_failed"]
                       /\ remove_failures' = remove_failures + 1
                       /\ UNCHANGED fs
       ELSE /\ filenames_q_' = q_push_back(filenames_q_, max_files_, current_file)
            /\ UNCHANGED <<fs, err, remove_failures, rm_log>>
    /\ q_misuse' = (q_misuse \/ IF q_full(filenames_q_, max_files_)
                                THEN filenames_q_ = <<>> \/ q_full(Tail(filenames_q_), max_files_)
                                ELSE q_full(filenames_q_, max_files_))
    /\ owned' = owned \cup {cur}
    /\ pc' = [pc EXCEPT ![t] = "unlock"]
    /\ UNCHANGED <<config_vars, env_vars, rotation_tp_, cur, remove_init_file_, holder, msg,
                   should_rotate, nmsg, times, late, threw, fd_, rotations, rotated_from>>

\* the lock_guard of the call goes out of scope: the call returns or throws
Unlock(t) ==
    /\ pc[t] = "unlock"
    /\ holder' = 0
    /\ pc' = [pc EXCEPT ![t] = "idle"]
    /\ msg' = [msg EXCEPT ![t] = NoMsg]
    /\ should_rotate' = [should_rotate EXCEPT ![t] = FALSE]
    /\ err' = [err EXCEPT ![t] = "none"]
    /\ threw' = (threw \/ err[t] # "none")
    /\ UNCHANGED <<config_vars, env_vars, rotation_tp_, cur, filenames_q_, remove_init_file_,
                   fs, nmsg, remove_failures, rm_log, owned, times, late, rotations, rotated_from,
                   fd_, q_misuse>>

\* base_sink::flush(): lock, then flush_()
FlushLock(t) ==
    /\ CanLock(t)
    /\ holder' = Locked(t)
    /\ pc' = [pc EXCEPT ![t] = "flush_"]
    /\ UNCHANGED <<config_vars, env_vars, rotation_tp_, cur, filenames_q_, remove_init_file_,
                   fs, msg, should_rotate, err, nmsg, remove_failures, rm_log, owned, times,
                   late, threw, fd_, q_misuse, rotations, rotated_from>>

\* mutant of Flush_: flush_ rotates when the wall clock has passed the boundary
Flush_Rotates(t) ==
    /\ pc[t] = "flush_"
    /\ holder' = 0
    /\ pc' = [pc EXCEPT ![t] = "idle"]
    /\ IF now >= rotation_tp_
       THEN LET filename == IF sink = "minute"
                            THEN minute_calc_filename(BaseFilename, now_tm(now))
                            ELSE FileNameCalc_calc_filename(calc_, BaseFilename, now_tm(now))
            IN  /\ fs' = file_open(fs, filename, truncate_)
                /\ cur' = filename
                /\ rotation_tp_' = now + Period
       ELSE UNCHANGED <<fs, cur, rotation_tp_>>
    /\ UNCHANGED <<config_vars, env_vars, filenames_q_, remove_init_file_, msg, should_rotate,
                   err, nmsg, remove_failures, rm_log, owned, times, late, threw, fd_, q_misuse, rotations,
                   rotated_from>>

\* flush_(): file_helper_.flush(); then the lock_guard of flush() is released
Flush_(t) ==
    /\ pc[t] = "flush_"
    /\ holder' = 0
    /\ pc' = [pc EXCEPT ![t] = "idle"]
    /\ UNCHANGED <<config_vars, env_vars, rotation_tp_, cur, filenames_q_, remove_init_file_,
                   fs, msg, should_rotate, err, nmsg, remove_failures, rm_log, owned,
                   times, late, threw, fd_, q_misuse, rotations, rotated_from>>

\* mutant of FilenameLock: filename() reads the name without taking mutex_
FilenameLock_NoLock(t) ==
    /\ Constructed
    /\ pc[t] = "idle"
    /\ IF mutex_kind = "mutex" THEN TRUE ELSE t = 1
    /\ pc' = [pc EXCEPT ![t] = "filename_"]
    /\ UNCHANGED <<config_vars, env_vars, rotation_tp_, cur, filenames_q_, remove_init_file_,
                   fs, msg, should_rotate, err, nmsg, remove_failures, rm_log, owned, times,
                   late, threw, fd_, q_misuse, rotations, rotated_from, holder>>

\* filename() called by a thread: lock
FilenameLock(t) ==
    /\ CanLock(t)
    /\ holder' = Locked(t)
    /\ pc' = [pc EXCEPT ![t] = "filename_"]
    /\ UNCHANGED <<config_vars, env_vars, rotation_tp_, cur, filenames_q_, remove_init_file_,
                   fs, msg, should_rotate, err, nmsg, remove_failures, rm_log, owned, times,
                   late, threw, fd_, q_misuse, rotations, rotated_from>>

\* filename(): return file_helper_.filename(); its lock_guard is released
Filename_(t) ==
    /\ pc[t] = "filename_"
    /\ holder' = 0
    /\ pc' = [pc EXCEPT ![t] = "idle"]
    /\ UNCHANGED <<config_vars, env_vars, rotation_tp_, cur, filenames_q_, remove_init_file_,
                   fs, msg, should_rotate, err, nmsg, remove_failures, rm_log, owned,
                   times, late, threw, fd_, q_misuse, rotations, rotated_from>>

\* the wall clock advances between calls
Tick ==
    /\ Constructed
    /\ \A t \in Threads : pc[t] = "idle"
    /\ ticks < MaxTicks
    /\ now' = now + ClockStep
    /\ ticks' = ticks + 1
    /\ UNCHANGED <<config_vars, thread_vars, rotation_tp_, cur, filenames_q_,
                   remove_init_file_, fs, nmsg, remove_failures, rm_log, owned, times,
                   late, threw, fd_, q_misuse, rotations, rotated_from>>

Next ==
    \/ DailyCtor
    \/ MinuteCtor
    \/ Tick
    \/ \E t \in Threads :
         \/ LogLock(t)
         \/ DailyRotate(t)
         \/ MinuteRotate(t)
         \/ SinkWrite(t)
         \/ DailyFilenameRelock(t)
         \/ DeleteOld(t)
         \/ FlushLock(t)
         \/ Flush_(t)
         \/ FilenameLock(t)
         \/ Filename_(t)
         \/ Unlock(t)

Spec == Init /\ [][Next]_vars

(***************************************************************************)
(* The same operations where file_helper::open can fail.  open() closes    *)
(* the current file and records the new name before it tries to open it,   *)
(* so a failed open leaves file_helper_ without a handle; writing through  *)
(* it is undefined (fwrite on a null FILE pointer): the process dies, or    *)
(* the write fails and throws.                                             *)
(***************************************************************************)
(***************************************************************************)
(* The same operations where the directory also holds daily files of       *)
(* another sink whose base name, d_x.t, begins with this sink's stem and   *)
(* '_'.                                                                    *)
(***************************************************************************)
\* files of the base name d_x.t: one older than this sink's files, one of
\* the day of this sink's newest older file
SharedPrefixOlder ==
    <<"d", "_", "x", "_", "2", "0", "2", "0", "-", "0", "1", "-", "0", "5", ".", "t">>
SharedPrefixSameDay ==
    <<"d", "_", "x", "_", "2", "0", "2", "0", "-", "0", "1", "-", "0", "7", ".", "t">>

\* the directories tried: this sink's older files with one or the other
\* file of d_x.t, or that file alone
SharedPrefixDirs ==
    {OldDailyFiles \cup {SharedPrefixOlder}, OldDailyFiles \cup {SharedPrefixSameDay},
     {SharedPrefixOlder}, {SharedPrefixSameDay}}

\* daily_file_sink::daily_file_sink in a directory that also holds a file of the
\* base name d_x.t
DailyCtorSharedPrefix ==
    /\ sink = "none"
    /\ \E rot \in DailyRotations, trunc \in BOOLEAN, maxf \in 0..MaxFiles,
          delete_old_files_on_init \in BOOLEAN, mk \in {"mutex", "null_mutex"},
          initial_file_tp \in {now, now + Hours24}, d \in SharedPrefixDirs :
        LET rotation_hour == rot[1]
            rotation_minute == rot[2]
            dir0 == [f \in d |-> {0}]
        IN
        IF rotation_hour < 0 \/ rotation_hour > 23 \/ rotation_minute < 0 \/ rotation_minute > 59
        THEN \* throw_spdlog_ex("daily_file_sink: Invalid rotation time in ctor")
             /\ sink' = "invalid"
             /\ fs' = dir0
             /\ ctor_args' = [dir |-> d, filename |-> <<>>, initial_file_tp |-> initial_file_tp,
                              delete_old_files_on_init |-> FALSE]
             /\ UNCHANGED <<mutex_kind, rotation_h_, rotation_m_, truncate_, max_files_,
                            rotation_tp_, cur, filenames_q_, remove_init_file_,
                            remove_failures, rm_log, owned, fd_, q_misuse>>
        ELSE LET filename == FileNameCalc_calc_filename(calc_, BaseFilename,
                                                        now_tm(initial_file_tp))
                 dir1 == file_open(dir0, filename, trunc)
             IN
             /\ sink' = "daily"
             /\ ctor_args' = [dir |-> d, filename |-> filename,
                              initial_file_tp |-> initial_file_tp,
                              delete_old_files_on_init |-> maxf > 0 /\ delete_old_files_on_init]
             /\ mutex_kind' = mk
             /\ rotation_h_' = rotation_hour
             /\ rotation_m_' = rotation_minute
             /\ truncate_' = trunc
             /\ max_files_' = maxf
             /\ cur' = filename
             /\ fd_' = TRUE
             /\ rotation_tp_' = daily_next_rotation_tp_(now, rotation_hour, rotation_minute)
             /\ remove_init_file_' = FALSE
             /\ IF maxf > 0
                THEN \E m \in calc_dates_to_filenames(BaseFilename, DOMAIN dir1) :
                       LET old == daily_init_old_files(m, maxf, delete_old_files_on_init) IN
                       \E failed \in SUBSET Range(old) :
                          /\ Cardinality(failed) <= MaxRemoveFailures
                          /\ q_misuse' = push_misuse(<<>>, maxf, daily_init_recent_files(m, dir1, maxf))
                          /\ filenames_q_' = daily_init_queue(m, dir1, maxf)
                          /\ fs' = unlink(dir1, Range(old) \ failed)
                          /\ remove_failures' = Cardinality(failed)
                          /\ rm_log' = RemoveCalls(old, failed, "init")
                          /\ owned' = {filename} \cup Range(filenames_q_')
                ELSE /\ filenames_q_' = <<>>
                     /\ fs' = dir1
                     /\ owned' = {filename}
                     /\ UNCHANGED <<remove_failures, rm_log, q_misuse>>
    /\ UNCHANGED <<android, calc_, calc_io, thread_vars, env_vars, nmsg, times, late, threw, rotations,
                   rotated_from>>

NextShared == Next \/ DailyCtorSharedPrefix

SpecShared == Init /\ [][NextShared]_vars

(***************************************************************************)
(* The same operations where another process removes files of the          *)
(* directory while the constructor's recovery runs, after the directory    *)
(* was listed and before path_exists is asked.                             *)
(***************************************************************************)
\* daily_file_sink::daily_file_sink with max_files > 0: the files in gone are
\* listed by calc_dates_to_filenames and have left the directory at path_exists
DailyCtorRaced ==
    /\ sink = "none"
    /\ \E rot \in DailyRotations, trunc \in BOOLEAN, maxf \in 1..MaxFiles,
          delete_old_files_on_init \in BOOLEAN, mk \in {"mutex", "null_mutex"},
          initial_file_tp \in {now, now + Hours24}, d \in InitialDirs(OldDailyFiles),
          gone \in (SUBSET OldDailyFiles) \ {{}} :
        LET rotation_hour == rot[1]
            rotation_minute == rot[2]
            dir0 == [f \in d |-> {0}]
            filename == FileNameCalc_calc_filename(calc_, BaseFilename, now_tm(initial_file_tp))
            dir1 == file_open(dir0, filename, trunc)
            dir2 == unlink(dir1, gone)
        IN
        /\ gone \subseteq d
        /\ ~(rotation_hour < 0 \/ rotation_hour > 23 \/ rotation_minute < 0 \/ rotation_minute > 59)
        /\ sink' = "daily"
        /\ ctor_args' = [dir |-> d, filename |-> filename,
                         initial_file_tp |-> initial_file_tp,
                         delete_old_files_on_init |-> delete_old_files_on_init,
                         vanished |-> gone]
        /\ mutex_kind' = mk
        /\ rotation_h_' = rotation_hour
        /\ rotation_m_' = rotation_minute
        /\ truncate_' = trunc
        /\ max_files_' = maxf
        /\ cur' = filename
        /\ fd_' = TRUE
        /\ rotation_tp_' = daily_next_rotation_tp_(now, rotation_hour, rotation_minute)
        /\ remove_init_file_' = FALSE
        /\ \E m \in calc_dates_to_filenames(BaseFilename, DOMAIN dir1) :
              LET old == daily_init_old_files(m, maxf, delete_old_files_on_init) IN
              \E failed \in SUBSET (Range(old) \ gone) :
                 /\ Cardinality(failed) <= MaxRemoveFailures
                 /\ q_misuse' = push_misuse(<<>>, maxf, daily_init_recent_files(m, dir2, maxf))
                 /\ filenames_q_' = daily_init_queue(m, dir2, maxf)
                 /\ fs' = unlink(dir2, Range(old) \ failed)
                 /\ remove_failures' = Cardinality(failed)
                 /\ rm_log' = RemoveCalls(old, failed, "init")
                 /\ owned' = {filename} \cup Range(filenames_q_')
    /\ UNCHANGED <<android, calc_, calc_io, thread_vars, env_vars, nmsg, times, late, threw, rotations,
                   rotated_from>>

NextRaced == Next \/ DailyCtorRaced

SpecRaced == Init /\ [][NextRaced]_vars

\* daily_file_sink::sink_it_, the rotation, when file_helper_.open throws
DailyRotateOpenFails(t) ==
    /\ sink = "daily"
    /\ pc[t] = "sink_it_"
    /\ msg[t].time >= rotation_tp_
    /\ should_rotate' = [should_rotate EXCEPT ![t] = TRUE]
    /\ cur' = FileNameCalc_calc_filename(calc_, BaseFilename, now_tm(msg[t].time))
    /\ fd_' = FALSE
    /\ err' = [err EXCEPT ![t] = "open_failed"]
    /\ pc' = [pc EXCEPT ![t] = "unlock"]
    /\ UNCHANGED <<config_vars, env_vars, rotation_tp_, filenames_q_, remove_init_file_, fs,
                   holder, msg, nmsg, remove_failures, rm_log, owned, times, late, threw,
                   rotations, rotated_from, q_misuse>>

\* minute_file_sink::sink_it_, the rotation, when file_helper_.open throws
MinuteRotateOpenFails(t) ==
    /\ sink = "minute"
    /\ pc[t] = "sink_it_"
    /\ msg[t].time >= rotation_tp_
    /\ \E removed \in (IF remove_init_file_ /\ path_exists(fs, cur)
                          /\ remove_failures < MaxRemoveFailures
                       THEN BOOLEAN ELSE {TRUE}) :
          /\ fs' = IF remove_init_file_ /\ removed THEN unlink(fs, {cur}) ELSE fs
          /\ rm_log' = IF remove_init_file_
                       THEN Append(rm_log, [name |-> cur, ok |-> removed, by |-> "init_file"])
                       ELSE rm_log
          /\ remove_failures' = IF removed THEN remove_failures ELSE remove_failures + 1
    /\ should_rotate' = [should_rotate EXCEPT ![t] = TRUE]
    /\ cur' = minute_calc_filename(BaseFilename, now_tm(msg[t].time))
    /\ fd_' = FALSE
    /\ err' = [err EXCEPT ![t] = "open_failed"]
    /\ pc' = [pc EXCEPT ![t] = "unlock"]
    /\ UNCHANGED <<config_vars, env_vars, rotation_tp_, filenames_q_, remove_init_file_,
                   holder, msg, nmsg, owned, times, late, threw, rotations, rotated_from,
                   q_misuse>>

\* sink_it_, file_helper_.write when file_helper_ has no handle
SinkWriteNoFile(t) ==
    /\ pc[t] = "write"
    /\ ~fd_
    /\ \/ /\ pc' = [pc EXCEPT ![t] = "crashed"]
          /\ UNCHANGED err
       \/ /\ pc' = [pc EXCEPT ![t] = "unlock"]
          /\ err' = [err EXCEPT ![t] = "write_failed"]
    /\ UNCHANGED <<config_vars, env_vars, rotation_tp_, cur, filenames_q_, remove_init_file_,
                   fs, holder, msg, should_rotate, nmsg, remove_failures, rm_log, owned,
                   times, late, threw, rotations, rotated_from, fd_, q_misuse>>

NextOpenFail ==
    \/ Next
    \/ \E t \in Threads :
         \/ DailyRotateOpenFails(t)
         \/ MinuteRotateOpenFails(t)
         \/ SinkWriteNoFile(t)

SpecOpenFail == Init /\ [][NextOpenFail]_vars

\* the same operations on daily_file_sink<Mutex, custom_daily_file_name_calculator>
SpecCustom == InitCustom /\ [][Next]_vars

(***************************************************************************)
(* The filename calculators called directly, as the unit tests do: the     *)
(* names of two calendar times are computed for a base name, then the date *)
(* suffix is extracted from the first daily name.                          *)
(***************************************************************************)
\* base file names: with and without extension, ending in a dot, starting
\* with a dot, with '_' in the stem and in the extension
CalcBases ==
    {<<"d", ".", "t">>, <<"d">>, <<"d", ".">>, <<".", "t">>,
     <<"d", "_", "x", ".", "t">>, <<"d", ".", "t", "_", "x">>}

\* calendar times: one- and two-digit months, days, hours and minutes in two
\* years (log_clock's range keeps tm_year + 1900 within four digits)
CalcTms ==
    [tm_year : {99, 120}, tm_mon : {0, 11}, tm_mday : {9, 10},
     tm_hour : {9, 10}, tm_min : {5, 59}, tm_sec : {0}]

InitCalc ==
    /\ calc_ = "daily"
    /\ android = NoAndroidCall
    /\ Unconstructed
    /\ \E base \in CalcBases, tm1 \in CalcTms, tm2 \in CalcTms :
          calc_io = [phase |-> "input", base |-> base, tm1 |-> tm1, tm2 |-> tm2]

\* daily_filename_calculator::calc_filename and
\* minute_filename_calculator::calc_filename, for both calendar times
CalcFilenameCall ==
    /\ calc_io.phase = "input"
    /\ calc_io' = [phase |-> "named", base |-> calc_io.base,
                   tm1 |-> calc_io.tm1, tm2 |-> calc_io.tm2,
                   daily1 |-> daily_calc_filename(calc_io.base, calc_io.tm1),
                   daily2 |-> daily_calc_filename(calc_io.base, calc_io.tm2),
                   minute1 |-> minute_calc_filename(calc_io.base, calc_io.tm1),
                   minute2 |-> minute_calc_filename(calc_io.base, calc_io.tm2)]
    /\ UNCHANGED <<android, calc_, ctor_args, sink, mutex_kind, rotation_h_, rotation_m_, truncate_,
                   max_files_, thread_vars, env_vars, rotation_tp_, cur, filenames_q_,
                   remove_init_file_, fs, nmsg, remove_failures, rm_log, owned, times,
                   late, threw, fd_, q_misuse, rotations, rotated_from>>

\* daily_filename_calculator::extract_date_suffix of the first daily name
ExtractSuffixCall ==
    /\ calc_io.phase = "named"
    /\ calc_io' = [phase |-> "extracted", base |-> calc_io.base, tm1 |-> calc_io.tm1,
                   daily1 |-> calc_io.daily1,
                   date_suffix |-> extract_date_suffix(calc_io.base, calc_io.daily1)]
    /\ UNCHANGED <<android, calc_, ctor_args, sink, mutex_kind, rotation_h_, rotation_m_, truncate_,
                   max_files_, thread_vars, env_vars, rotation_tp_, cur, filenames_q_,
                   remove_init_file_, fs, nmsg, remove_failures, rm_log, owned, times,
                   late, threw, fd_, q_misuse, rotations, rotated_from>>

NextCalc == CalcFilenameCall \/ ExtractSuffixCall

SpecCalc == InitCalc /\ [][NextCalc]_vars

(***************************************************************************)
(* Vocabulary of the properties.                                           *)
(***************************************************************************)
(***************************************************************************)
(* next_rotation_tp_ of both sinks called directly, for wall clock times   *)
(* before, at and after the rotation time of day, with and without         *)
(* seconds into the minute.                                                *)
(***************************************************************************)
\* log_clock::now(): seconds since 2020-01-08 00:00:00, on that day and the next
ClockNows ==
    {d * Hours24 + s : d \in {0, 1},
                       s \in {0, 2 * HourSecs + 29 * MinuteSecs + 59, 2 * HourSecs + 30 * MinuteSecs,
                              2 * HourSecs + 30 * MinuteSecs + 1, 3 * HourSecs + 30,
                              23 * HourSecs + 59 * MinuteSecs + 59}}

\* valid (rotation_h_, rotation_m_); rotation_m_ is also the minute sink's period
ClockRotations == {0, 2, 23} \X {0, 1, 30, 59}

InitClock ==
    /\ calc_ = "daily"
    /\ android = NoAndroidCall
    /\ Unconstructed
    /\ \E tnow \in ClockNows, rot \in ClockRotations :
          calc_io = [phase |-> "clock", now |-> tnow, rotation_h_ |-> rot[1],
                     rotation_m_ |-> rot[2]]

\* daily_file_sink::next_rotation_tp_ and minute_file_sink::next_rotation_tp_
NextRotationTpCall ==
    /\ calc_io.phase = "clock"
    /\ calc_io' = [phase |-> "boundary", now |-> calc_io.now,
                   rotation_h_ |-> calc_io.rotation_h_, rotation_m_ |-> calc_io.rotation_m_,
                   daily |-> daily_next_rotation_tp_(calc_io.now, calc_io.rotation_h_,
                                                     calc_io.rotation_m_),
                   minute |-> minute_next_rotation_tp_(calc_io.now, calc_io.rotation_m_)]
    /\ UNCHANGED <<android, calc_, ctor_args, sink, mutex_kind, rotation_h_, rotation_m_, truncate_,
                   max_files_, thread_vars, env_vars, rotation_tp_, cur, filenames_q_,
                   remove_init_file_, fs, nmsg, remove_failures, rm_log, owned, times,
                   late, threw, fd_, q_misuse, rotations, rotated_from>>

NextClock == NextRotationTpCall

SpecClock == InitClock /\ [][NextClock]_vars

\* no write call is in flight
NoWriteInFlight == \A t \in Threads : pc[t] \in {"idle", "flush_", "filename_"}

\* the files on disk that this sink opened or tracked in its queue
OwnedOnDisk == owned \cap DOMAIN fs

\* the last remove call issued
LastRemove == rm_log[Len(rm_log)]

(***************************************************************************)
(* C1.  Retention bound: with max_files = N > 0 the number of files on     *)
(* disk that the sink opened or tracked is at most N whenever no write is  *)
(* in flight, and at most N + 1 during a write.                            *)
(***************************************************************************)
C1_RetentionBound ==
    (Constructed /\ max_files_ > 0) =>
        /\ Cardinality(OwnedOnDisk) <= max_files_ + 1
        /\ NoWriteInFlight => Cardinality(OwnedOnDisk) <= max_files_

(***************************************************************************)
(* C2.  When the eviction's remove fails, the popped name is back in the   *)
(* queue in the oldest position when the failing write returns, so that    *)
(* the next rotation's eviction tries that same file again.                *)
(***************************************************************************)
C2_FailedDeletionRestored ==
    \A t \in Threads :
        (pc[t] = "unlock" /\ err[t] = "remove_failed") =>
            /\ filenames_q_ # <<>>
            /\ Head(filenames_q_) = LastRemove.name

(***************************************************************************)
(* C3.  In a write that rotates with max_files > 0 the record is in the    *)
(* newly opened file before the eviction attempts any deletion, and it is  *)
(* still there when the write ends with the failed-removal error.          *)
(***************************************************************************)
RecordInCurrentFile(t) == cur \in DOMAIN fs /\ msg[t].id \in fs[cur]

C3_WriteBeforeEviction ==
    \A t \in Threads :
        /\ pc[t] \in {"filename", "delete_old_"} => RecordInCurrentFile(t)
        /\ (pc[t] = "unlock" /\ err[t] = "remove_failed") => RecordInCurrentFile(t)

\* a write has ended with the failed-removal error and its record is in the file
C3_Witness ==
    \E t \in Threads :
        pc[t] = "unlock" /\ err[t] = "remove_failed" /\ RecordInCurrentFile(t)

(***************************************************************************)
(* C4.  As claimed: with max_files = 0 the queue is never populated and no *)
(* remove call is ever issued, under either policy.                        *)
(***************************************************************************)
C4_NoRemoveWhenUnbounded ==
    (Constructed /\ max_files_ = 0) => (filenames_q_ = <<>> /\ rm_log = <<>>)

(***************************************************************************)
(* C4, amended.  With max_files = 0 the queue is never populated and no    *)
(* file is removed, except that the minute sink removes, once, the file it *)
(* opened at construction (at its first rotation); every other file found  *)
(* or opened stays on disk.                                                *)
(***************************************************************************)
C4_OnlyInitFileRemoved ==
    (Constructed /\ max_files_ = 0) =>
        /\ filenames_q_ = <<>>
        /\ sink = "daily" => rm_log = <<>>
        /\ Len(rm_log) <= 1
        /\ \A i \in 1..Len(rm_log) :
              rm_log[i].by = "init_file" /\ rm_log[i].name = ctor_args.filename
        /\ (owned \cup ctor_args.dir) \ {ctor_args.filename} \subseteq DOMAIN fs

\* the minute sink, unbounded, has rotated twice and removed only its first file
C4_Witness ==
    /\ sink = "minute"
    /\ max_files_ = 0
    /\ rotations = 2
    /\ Len(rm_log) = 1
    /\ NoWriteInFlight

(***************************************************************************)
(* C5.  Daily sink started in an empty directory, fed D >= 1 records       *)
(* stamped 24h apart from the construction time, none fed after its own    *)
(* timestamp, every write returning normally: the files on disk are        *)
(* exactly those of the last min(D, N) days (of all D days when N = 0).    *)
(***************************************************************************)
Min(a, b) == IF a < b THEN a ELSE b

DayFile(i) == daily_calc_filename(BaseFilename, now_tm(StartTime + (i - 1) * Hours24))

FedDaily ==
    /\ sink = "daily"
    /\ ctor_args.dir = {}
    /\ ctor_args.initial_file_tp = StartTime
    /\ Len(times) >= 1
    /\ \A i \in 1..Len(times) : times[i] = StartTime + (i - 1) * Hours24
    /\ ~late
    /\ ~threw
    /\ remove_failures = 0
    /\ NoWriteInFlight

Suffix(f) == extract_date_suffix(BaseFilename, f)

ScanMatching == {f \in ctor_args.dir \cup {ctor_args.filename} : Suffix(f) # <<>>}

DeleteOnInitCase ==
    /\ sink = "daily"
    /\ rotations = 0
    /\ max_files_ > 0
    /\ ctor_args.delete_old_files_on_init
    /\ Cardinality(ScanMatching) > max_files_
    /\ remove_failures = 0

C6_DeleteOldOnInit ==
    DeleteOnInitCase =>
        LET remaining == ScanMatching \cap DOMAIN fs
            deleted == ScanMatching \ DOMAIN fs
        IN  /\ Cardinality(remaining) = max_files_
            /\ Cardinality(deleted) = Cardinality(ScanMatching) - max_files_
            /\ \A x \in deleted, y \in remaining : StrLess(Suffix(x), Suffix(y))
            /\ deleted = {rm_log[i].name : i \in 1..Len(rm_log)}

\* three matching files, max_files = 1: the two oldest have been removed
C6_Witness ==
    /\ DeleteOnInitCase
    /\ max_files_ = 1
    /\ Cardinality(ScanMatching) = 3
    /\ Len(rm_log) = 2

(***************************************************************************)
(* C7.  Right after construction with max_files = N > 0 the queue, as a    *)
(* set, is the N most recent files on disk that match the base name.       *)
(***************************************************************************)
\* stem + '_' ... + extension of the base file name
MatchesBase(f) ==
    /\ StartsWith(f, split_by_extension(BaseFilename)[1] \o <<"_">>)
    /\ split_by_extension(f)[2] = split_by_extension(BaseFilename)[2]

MostRecent(S, n) == {f \in S : Cardinality({g \in S : StrLess(f, g)}) < n}

C7_RecoveryIdempotence ==
    (Constructed /\ max_files_ > 0 /\ rotations = 0) =>
        Range(filenames_q_) = MostRecent({f \in DOMAIN fs : MatchesBase(f)}, max_files_)

(***************************************************************************)
(* C8.  The boundary computed at construction and at every rotation is     *)
(* strictly after the wall-clock time at which it is computed.             *)
(***************************************************************************)
C8_BoundaryAfterNow ==
    /\ (Constructed /\ rotations = 0 /\ ticks = 0) => rotation_tp_ > now
    /\ \A t \in Threads : (pc[t] = "write" /\ should_rotate[t]) => rotation_tp_ > now

(***************************************************************************)
(* C9.  As claimed: when the records fed so far have non-decreasing        *)
(* timestamps, the open file's name changes only in a write whose record   *)
(* is at or after the boundary, and then to a greater name, starting with  *)
(* the file opened at construction.                                        *)
(***************************************************************************)
NonDecreasing(seq) == \A i \in 1..(Len(seq) - 1) : seq[i] <= seq[i + 1]

\* this step is thread t's rotation decision and its record crosses the boundary
Crossing(t) == pc[t] = "sink_it_" /\ pc'[t] = "write" /\ msg[t].time >= rotation_tp_

C9_MonotonicRotation ==
    [][(Constructed /\ cur' # cur) =>
          /\ \E t \in Threads : Crossing(t)
          /\ NonDecreasing(times) => StrLess(cur, cur')]_vars

(***************************************************************************)
(* C9, amended.  The same, the order with the construction-time file       *)
(* holding provided the injected initial_file_tp is not later than the     *)
(* first record's timestamp.                                               *)
(***************************************************************************)
C9_MonotonicFromFirstRecord ==
    [][(Constructed /\ cur' # cur) =>
          /\ \E t \in Threads : Crossing(t)
          /\ (NonDecreasing(times) /\ ctor_args.initial_file_tp <= times[1])
                => StrLess(cur, cur')]_vars

\* after two rotations with non-decreasing timestamps the open file is a later one
C9_Witness ==
    /\ rotations = 2
    /\ NonDecreasing(times)
    /\ ctor_args.initial_file_tp <= times[1]
    /\ StrLess(ctor_args.filename, cur)

(***************************************************************************)
(* C10.  Every call takes the sink's mutex once: no thread tries to lock   *)
(* the mutex it already owns, and none is blocked for ever.                *)
(***************************************************************************)
C10_LockAcquiredOnce ==
    \A t \in Threads :
        /\ ~(pc[t] = "filename" /\ mutex_kind = "mutex" /\ holder = t)
        /\ pc[t] # "blocked"

(***************************************************************************)
(* C11.  On a sink protected by a mutex the calls are serialized: a thread *)
(* that is anywhere inside write (rotation decided, file rotated, record   *)
(* written, eviction pending), flush or filename owns the mutex, so while  *)
(* one thread is inside such a call every other thread is outside.         *)
(***************************************************************************)
InCall(t) == pc[t] # "idle"

\* thread t is between the steps of a write
MidWrite(t) == pc[t] \in {"sink_it_", "write", "filename", "delete_old_", "unlock"}

C11_CallsSerialized ==
    mutex_kind = "mutex" =>
        \A t \in Threads :
            /\ InCall(t) => holder = t
            /\ MidWrite(t) => \A u \in Threads \ {t} : ~InCall(u)

\* a write of a mutex-protected sink has rotated and written and is about to
\* evict from a full queue, after another call has completed
C11_Witness ==
    /\ mutex_kind = "mutex"
    /\ nmsg = 2
    /\ \E t \in Threads :
          /\ pc[t] = "delete_old_"
          /\ q_full(filenames_q_, max_files_)
          /\ \A u \in Threads \ {t} : pc[u] = "idle"

(***************************************************************************)
(* C12.  Rotation is lazy: files are created only by the rotation of a     *)
(* write; a write whose record is at or after the boundary rotates once,   *)
(* to the file named for the record's timestamp, however many periods have *)
(* gone by, and no other step rotates or creates a file.                   *)
(***************************************************************************)
\* FileNameCalc::calc_filename(base_filename_, now_tm(time)) of the sink
CalcName(time) ==
    IF sink = "minute" THEN minute_calc_filename(BaseFilename, now_tm(time))
    ELSE FileNameCalc_calc_filename(calc_, BaseFilename, now_tm(time))

C12_LazyRotation ==
    [][Constructed =>
          /\ rotations' \in {rotations, rotations + 1}
          /\ (DOMAIN fs' \ DOMAIN fs) \subseteq (IF rotations' # rotations THEN {cur'} ELSE {})
          /\ \A t \in Threads :
                Crossing(t) => (rotations' = rotations + 1 /\ cur' = CalcName(msg[t].time))
          /\ (rotations' # rotations) => \E t \in Threads : Crossing(t)]_vars

\* the daily sink was idle over a whole day and the next record, two days after
\* the construction, rotated once: no file of the day in between exists
C12_Witness ==
    /\ sink = "daily"
    /\ ctor_args.dir = {}
    /\ ctor_args.initial_file_tp = StartTime
    /\ times = <<StartTime + 2 * Hours24>>
    /\ NoWriteInFlight
    /\ rotations = 1
    /\ cur = DayFile(3)
    /\ DayFile(2) \notin DOMAIN fs
    /\ 1 \in fs[cur]

(***************************************************************************)
(* C13.  A constructor given an out-of-range rotation time throws before   *)
(* it touches anything: the directory is as it was found, no file has been *)
(* opened, nothing is queued and no remove call was issued.  The check is  *)
(* made nowhere else: a constructed sink has its rotation time in range,   *)
(* and the rejected sink has run no operation.                             *)
(***************************************************************************)
C13_InvalidRotationRejected ==
    /\ sink = "invalid" =>
          /\ DOMAIN fs = ctor_args.dir
          /\ \A f \in DOMAIN fs : fs[f] = {0}
          /\ cur = <<>>
          /\ filenames_q_ = <<>>
          /\ rm_log = <<>>
          /\ owned = {}
          /\ nmsg = 0 /\ ticks = 0 /\ \A t \in Threads : pc[t] = "idle"
    /\ Constructed =>
          /\ rotation_m_ \in 0..59
          /\ sink = "daily" => rotation_h_ \in 0..23

\* a constructor was refused in a directory that holds two older files
C13_Witness ==
    /\ sink = "invalid"
    /\ Cardinality(ctor_args.dir) = 2
    /\ DOMAIN fs = ctor_args.dir

(***************************************************************************)
(* C14.  As claimed: when the eviction step of a rotating write ends       *)
(* without error, the name it pushed last into the queue is the file that  *)
(* was open before this rotation.                                          *)
(***************************************************************************)
Last(q) == q[Len(q)]

\* this step is thread t's delete_old_ returning normally
EvictionDone(t) == pc[t] = "delete_old_" /\ pc'[t] = "unlock" /\ err'[t] = "none"

FirstRotationOfThrowaway ==
    /\ sink = "minute"
    /\ rotations = 1
    /\ NoWriteInFlight
    /\ \E i \in 1..Len(rm_log) : rm_log[i].by = "init_file" /\ rm_log[i].ok

C15_InitFileDiscarded ==
    FirstRotationOfThrowaway =>
        /\ ctor_args.filename \notin DOMAIN fs
        /\ ctor_args.filename \notin Range(filenames_q_)

(***************************************************************************)
(* C16.  daily_file_sink instantiated with a caller's FileNameCalc: every  *)
(* file it opens is named by that calculator, and the startup recovery     *)
(* with max_files > 0 queues and removes only directory entries that the   *)
(* calculator's own calc_dates_to_filenames attributes to the sink.        *)
(***************************************************************************)
\* the maps FileNameCalc::calc_dates_to_filenames can return for the directory
FileNameCalc_calc_dates_to_filenames(calc, base_filename, dir_files) ==
    IF calc = "custom" THEN custom_calc_dates_to_filenames(base_filename, dir_files)
    ELSE calc_dates_to_filenames(base_filename, dir_files)

\* the names a sequence of remove calls was issued for
Removed == {rm_log[i].name : i \in 1..Len(rm_log)}

C16_CustomPolicyHonoured ==
    sink = "daily" =>
        /\ \E tp \in {ctor_args.initial_file_tp} \cup Range(times) :
              cur = FileNameCalc_calc_filename(calc_, BaseFilename, now_tm(tp))
        /\ (rotations = 0 /\ max_files_ > 0) =>
              \E m \in FileNameCalc_calc_dates_to_filenames(
                            calc_, BaseFilename, ctor_args.dir \cup {ctor_args.filename}) :
                 (Range(filenames_q_) \cup Removed) \subseteq {m[date] : date \in DOMAIN m}

(***************************************************************************)
(* C17.  Round trip of the daily calculator: for every base name and       *)
(* calendar time, the date suffix extracted from the generated name is the *)
(* zero-padded YYYY-MM-DD of the time.                                     *)
(***************************************************************************)
\* YYYY-MM-DD of a calendar time, as the unit test formats it
ExpectedSuffix(tm) ==
    Fmt04d(tm.tm_year + 1900) \o <<"-">> \o Fmt02d(tm.tm_mon + 1) \o <<"-">>
        \o Fmt02d(tm.tm_mday)

C17_RoundTrip ==
    calc_io.phase = "extracted" => calc_io.date_suffix = ExpectedSuffix(calc_io.tm1)

(***************************************************************************)
(* C18.  A generated name is stem, '_', a suffix of fixed width (10        *)
(* characters YYYY-MM-DD for the daily calculator, 16 characters           *)
(* YYYY-MM-DD-HH_MM for the minute calculator) and the extension; of two   *)
(* calendar times that differ in the day (the minute), the earlier one     *)
(* gets the lexicographically smaller daily (minute) name.                 *)
(***************************************************************************)
\* calendar order down to the day, and down to the minute
DayLess(a, b) ==
    \/ a.tm_year < b.tm_year
    \/ a.tm_year = b.tm_year /\ a.tm_mon < b.tm_mon
    \/ a.tm_year = b.tm_year /\ a.tm_mon = b.tm_mon /\ a.tm_mday < b.tm_mday

SameDay(a, b) == a.tm_year = b.tm_year /\ a.tm_mon = b.tm_mon /\ a.tm_mday = b.tm_mday

MinuteLess(a, b) ==
    \/ DayLess(a, b)
    \/ SameDay(a, b) /\ a.tm_hour < b.tm_hour
    \/ SameDay(a, b) /\ a.tm_hour = b.tm_hour /\ a.tm_min < b.tm_min

\* name is stem, '_', width characters with the separators at the places
\* seps (counted inside the suffix), then the extension of the base name
HasLayout(name, base, width, seps) ==
    LET stem == split_by_extension(base)[1]
        ext == split_by_extension(base)[2]
        n == Len(stem)
    IN  /\ Len(name) = n + 1 + width + Len(ext)
        /\ SubSeq(name, 1, n) = stem
        /\ name[n + 1] = "_"
        /\ SubSeq(name, n + 2 + width, Len(name)) = ext
        /\ \A i \in 1..width :
              IF i \in DOMAIN seps THEN name[n + 1 + i] = seps[i]
              ELSE \E k \in 1..10 : name[n + 1 + i] = Digits[k]

DailySeps == (5 :> "-") @@ (8 :> "-")
MinuteSeps == (5 :> "-") @@ (8 :> "-") @@ (11 :> "-") @@ (14 :> "_")

NoMatch(f) == ~StartsWith(f, split_by_extension(BaseFilename)[1] \o filename_prefix_symbol)

C19_ForeignEntriesIgnored ==
    sink # "none" =>
        \A f \in ctor_args.dir :
            NoMatch(f) =>
                /\ extract_date_suffix(BaseFilename, f) = <<>>
                /\ f \notin Range(filenames_q_)
                /\ f \notin Removed
                /\ f \in DOMAIN fs

\* the daily sink has removed older files of its own at construction, in a
\* directory that also holds the foreign file, and has rotated since
C19_Witness ==
    /\ sink = "daily"
    /\ ForeignFile \in ctor_args.dir
    /\ ctor_args.delete_old_files_on_init
    /\ Len(rm_log) >= 2
    /\ rotations >= 1
    /\ ForeignFile \in DOMAIN fs

(***************************************************************************)
(* C20.  flush() never rotates: from the call to its return the open       *)
(* file's name, the boundary, the queue and the files on disk with their   *)
(* contents are unchanged, also when the wall clock has passed the         *)
(* boundary.                                                               *)
(***************************************************************************)
\* this step belongs to a flush() of thread t: its start or its body and return
FlushStep(t) ==
    \/ pc[t] # "flush_" /\ pc'[t] = "flush_"
    \/ pc[t] = "flush_" /\ pc'[t] # "flush_"

C20_FlushNeverRotates ==
    [][(\E t \in Threads : FlushStep(t)) =>
          UNCHANGED <<cur, rotation_tp_, filenames_q_, fs, remove_init_file_, rotations>>]_vars

\* a flush is in progress after the wall clock has passed the boundary
C20_Witness ==
    /\ Constructed
    /\ now >= rotation_tp_
    /\ ticks >= 1
    /\ \E t \in Threads : pc[t] = "flush_"

(***************************************************************************)
(* C21.  When a removal of the startup cleanup is refused, the daily sink  *)
(* is constructed all the same, with its file open and the queue seeded    *)
(* with the most recent max_files matching files, oldest first, as when    *)
(* every removal succeeds.                                                 *)
(***************************************************************************)
\* a remove call of init_filenames_q_ was refused
InitCleanupFailed == \E i \in 1..Len(rm_log) : rm_log[i].by = "init" /\ ~rm_log[i].ok

C21_InitCleanupFailureSwallowed ==
    (InitCleanupFailed /\ rotations = 0) =>
        /\ sink = "daily"
        /\ cur = ctor_args.filename
        /\ cur \in DOMAIN fs
        /\ filenames_q_ = SortStrings(MostRecent(ScanMatching, max_files_))

\* after a refused startup removal the sink has written a record to its file
C21_Witness ==
    /\ InitCleanupFailed
    /\ rotations = 0
    /\ nmsg = 1
    /\ NoWriteInFlight
    /\ ~threw
    /\ 1 \in fs[cur]

(***************************************************************************)
(* C22.  A write whose record is before the boundary does not rotate: from *)
(* its start to its return the current file name, the boundary and the     *)
(* queue stay as they are, no file is created or removed, and its record   *)
(* is appended to the current file.  The boundary of a constructed sink    *)
(* changes only in the rotation of a write.                                *)
(***************************************************************************)
\* thread t is in a write whose record is before the boundary
NotRotating(t) ==
    \/ pc[t] = "sink_it_" /\ msg[t].time < rotation_tp_
    \/ pc[t] \in {"write", "unlock"} /\ MidWrite(t) /\ ~should_rotate[t] /\ err[t] = "none"

C22_NonRotatingWriteFrame ==
    [][/\ \A t \in Threads :
            (NotRotating(t) /\ pc'[t] # pc[t]) =>
                /\ cur' = cur
                /\ rotation_tp_' = rotation_tp_
                /\ filenames_q_' = filenames_q_
                /\ rm_log' = rm_log
                /\ DOMAIN fs' = DOMAIN fs
                /\ (pc[t] = "sink_it_") => (pc'[t] = "write" /\ fs' = fs)
                /\ (pc[t] = "write") =>
                      /\ pc'[t] = "unlock"
                      /\ path_exists(fs, cur) => fs' = [fs EXCEPT ![cur] = fs[cur] \cup {msg[t].id}]
                /\ (pc[t] = "unlock") => (pc'[t] = "idle" /\ fs' = fs)
       /\ (Constructed /\ rotation_tp_' # rotation_tp_) => \E t \in Threads : Crossing(t)]_vars

\* two writes before the boundary have returned: both records are in the file
\* opened at construction, and no other file was created
C22_Witness ==
    /\ nmsg = 2
    /\ NoWriteInFlight
    /\ rotations = 0
    /\ cur = ctor_args.filename
    /\ fs[cur] \ {0} = {1, 2}
    /\ DOMAIN fs = ctor_args.dir \cup {cur}

(***************************************************************************)
(* C23.  A write whose record is at or after the boundary rotates: the     *)
(* file it opens is named for the record's timestamp, and the boundary it  *)
(* sets is next_rotation_tp_() of the wall clock at that moment, whatever  *)
(* the record's timestamp is.                                              *)
(***************************************************************************)
\* next_rotation_tp_() of the sink when log_clock::now() returns tnow
NextRotationTp(tnow) ==
    IF sink = "minute" THEN minute_next_rotation_tp_(tnow, rotation_m_)
    ELSE daily_next_rotation_tp_(tnow, rotation_h_, rotation_m_)

\* thread t has rotated and is about to write its record
Rotated(t) == pc[t] = "write" /\ should_rotate[t]

C23_NameFromRecordBoundaryFromClock ==
    [][\A t \in Threads :
          Crossing(t) =>
              /\ should_rotate'[t]
              /\ cur' = CalcName(msg[t].time)
              /\ path_exists(fs', cur')
              /\ rotation_tp_' = NextRotationTp(now)]_vars

\* a record stamped one period after the wall clock has rotated: the file is
\* named for the record's day or minute, the boundary is the wall clock's
C23_Witness ==
    \E t \in Threads :
        /\ Rotated(t)
        /\ msg[t].time > now
        /\ cur = CalcName(msg[t].time)
        /\ cur # CalcName(now)
        /\ rotation_tp_ = NextRotationTp(now)
        /\ rotation_tp_ # NextRotationTp(msg[t].time)

(***************************************************************************)
(* C24.  The next boundary is the candidate built from the calendar        *)
(* breakdown of now -- daily: today at rotation_h_:rotation_m_:00; minute: *)
(* the start of the current minute -- when that candidate is after now,    *)
(* and otherwise the candidate plus one period: 24 hours for the daily     *)
(* sink, rotation_m_ minutes for the minute sink.                          *)
(***************************************************************************)
\* today at h:m:00, in seconds, for the wall clock tnow
DailyCandidate(tnow, h, m) == (tnow - (tnow % Hours24)) + h * HourSecs + m * MinuteSecs

\* the start of the minute of tnow
MinuteCandidate(tnow) == tnow - (tnow % MinuteSecs)

C24_BoundaryIsCandidateOrOnePeriodLater ==
    calc_io.phase = "boundary" =>
        LET tnow == calc_io.now
            dc == DailyCandidate(tnow, calc_io.rotation_h_, calc_io.rotation_m_)
            mc == MinuteCandidate(tnow)
        IN  /\ calc_io.daily = IF dc > tnow THEN dc ELSE dc + Hours24
            /\ calc_io.minute = IF mc > tnow THEN mc ELSE mc + calc_io.rotation_m_ * MinuteSecs

\* half a minute past 03:00 with the rotation at 02:30: the daily boundary is
\* 02:30 of the next day, the minute boundary 30 minutes after 03:00:00
C24_Witness ==
    /\ calc_io.phase = "boundary"
    /\ calc_io.now = 3 * HourSecs + 30
    /\ calc_io.rotation_h_ = 2 /\ calc_io.rotation_m_ = 30
    /\ calc_io.daily = Hours24 + 2 * HourSecs + 30 * MinuteSecs
    /\ calc_io.minute = 3 * HourSecs + 30 * MinuteSecs

(***************************************************************************)
(* C25.  The queue never holds more than max_files entries, no push_back   *)
(* finds it full and no pop_front finds it empty, in the recovery of the   *)
(* constructor and in delete_old_.                                         *)
(***************************************************************************)
C25_QueueProtocol ==
    Constructed =>
        /\ Len(filenames_q_) <= max_files_
        /\ ~q_misuse

\* the recovery found more matching files than max_files, and a later
\* rotation has evicted from the full queue
C25_Witness ==
    /\ sink = "daily"
    /\ max_files_ > 0
    /\ Cardinality(ScanMatching) > max_files_
    /\ NoWriteInFlight
    /\ \E i \in 1..Len(rm_log) : rm_log[i].by = "delete_old_"
    /\ Len(filenames_q_) = max_files_

(***************************************************************************)
(* C26.  As claimed: in every state of a constructed sink the queue is     *)
(* ordered oldest to newest, its entries in the lexicographic order of     *)
(* their names (one prefix and extension, so the order of their suffixes). *)
(***************************************************************************)
\* the entries of q are in non-decreasing lexicographic order
Ordered(q) == \A i \in 1..(Len(q) - 1) : StrLeq(q[i], q[i + 1])

EvictionCalls == {i \in 1..Len(rm_log) : rm_log[i].by = "delete_old_"}

\* this step is the delete_old_ of thread t
EvictionStep(t) == pc[t] = "delete_old_" /\ pc'[t] # pc[t]

C27_EvictionOnlyOldestWhenFull ==
    [][/\ \A t \in Threads :
            pc'[t] \in {"filename", "delete_old_"} => (should_rotate'[t] /\ max_files_' > 0)
       /\ Cardinality(EvictionCalls') <= rotations'
       /\ \A t \in Threads :
            EvictionStep(t) =>
                IF q_full(filenames_q_, max_files_)
                THEN /\ rm_log' = Append(rm_log, [name |-> Head(filenames_q_),
                                                  ok |-> LastRemove'.ok, by |-> "delete_old_"])
                     /\ (DOMAIN fs \ DOMAIN fs') \subseteq {Head(filenames_q_)}
                ELSE rm_log' = rm_log /\ fs' = fs
       /\ (rm_log' # rm_log /\ LastRemove'.by = "delete_old_") => \E t \in Threads : EvictionStep(t)]_vars

\* a rotation with a full queue of two files has removed the older one
C27_Witness ==
    /\ max_files_ = 2
    /\ rm_log # <<>>
    /\ LastRemove.by = "delete_old_"
    /\ LastRemove.ok
    /\ Len(filenames_q_) = 2
    /\ StrLess(LastRemove.name, filenames_q_[1])
    /\ ~path_exists(fs, LastRemove.name)
    /\ \A f \in Range(filenames_q_) : path_exists(fs, f)

(***************************************************************************)
(* C28.  When file_helper_.open fails in a rotation, the write ends with   *)
(* that error at once, and the boundary and the queue are as before the    *)
(* write and no file has left the directory.                               *)
(***************************************************************************)
\* this step is a rotation of thread t whose open fails
OpenFails(t) == pc[t] = "sink_it_" /\ err'[t] = "open_failed"

C28_OpenFailureLeavesStateUnchanged ==
    [][\A t \in Threads :
          OpenFails(t) =>
              /\ pc'[t] = "unlock"
              /\ rotation_tp_' = rotation_tp_
              /\ filenames_q_' = filenames_q_
              /\ DOMAIN fs' = DOMAIN fs]_vars

(***************************************************************************)
(* C29.  When files that were listed have left the directory before        *)
(* path_exists is asked, the daily sink is constructed all the same, and   *)
(* its queue holds, oldest first, those of the max_files most recent       *)
(* listed files that were still there.                                     *)
(***************************************************************************)
\* the constructor's recovery ran while listed files were being removed
RecoveryRaced == sink = "daily" /\ "vanished" \in DOMAIN ctor_args

C29_VanishedFilesSkipped ==
    (RecoveryRaced /\ rotations = 0) =>
        /\ cur = ctor_args.filename
        /\ fd_
        /\ filenames_q_ = SortStrings(MostRecent(ScanMatching, max_files_) \ ctor_args.vanished)
        /\ Ordered(filenames_q_)

\* one of the two most recent listed files had gone: the queue holds the
\* other one, and the sink has since written a record
C29_Witness ==
    /\ RecoveryRaced
    /\ rotations = 0
    /\ max_files_ = 2
    /\ Cardinality(ctor_args.vanished \cap MostRecent(ScanMatching, max_files_)) = 1
    /\ Len(filenames_q_) = 1
    /\ nmsg = 1
    /\ NoWriteInFlight
    /\ ~threw
    /\ 1 \in fs[cur]

(***************************************************************************)
(* C30.  delete_old_ never removes the file that is open for writing: the  *)
(* name it hands to the removal differs from file_helper_.filename().      *)
(***************************************************************************)
C30_EvictionSparesCurrentFile ==
    [][\A t \in Threads :
          (EvictionStep(t) /\ q_full(filenames_q_, max_files_)) =>
              /\ Head(filenames_q_) # cur
              /\ path_exists(fs, cur) => path_exists(fs', cur)]_vars

(***************************************************************************)
(* C31.  The queue never holds one file name twice, after the recovery of  *)
(* either constructor and after any rotations.                             *)
(***************************************************************************)
C31_QueueHasNoDuplicates ==
    Constructed => Cardinality(Range(filenames_q_)) = Len(filenames_q_)

(***************************************************************************)
(* C32.  No step takes a record this sink has written out of a file that   *)
(* stays in the directory: a rotation never re-opens with truncation a     *)
(* file the sink has written records into.                                 *)
(***************************************************************************)
\* the records of this sink in file f of directory dir (0 is older content)
RecordsIn(dir, f) == dir[f] \ {0}

C32_WrittenRecordsKept ==
    [][\A f \in DOMAIN fs \cap DOMAIN fs' : RecordsIn(fs, f) \subseteq RecordsIn(fs', f)]_vars

(***************************************************************************)
(* C33.  With max_files > 0 the name of the open file is an entry of the   *)
(* queue after construction and whenever a write returns normally.         *)
(***************************************************************************)
\* thread t's write is returning without an exception
ReturnsNormally(t) == pc[t] = "unlock" /\ err[t] = "none"

C33_CurrentFileQueued ==
    (Constructed /\ max_files_ > 0) =>
        /\ nmsg = 0 => cur \in Range(filenames_q_)
        /\ \A t \in Threads : ReturnsNormally(t) => cur \in Range(filenames_q_)

(***************************************************************************)
(* C34.  The recovery and the startup cleanup of the daily sink touch only *)
(* files named as calc_filename names them for this base name: any other   *)
(* directory entry is never queued and never removed, and every file of    *)
(* this sink among the max_files most recent of its files is queued,       *)
(* whatever else the directory holds.                                      *)
(***************************************************************************)
\* f is stem, '_', YYYY-MM-DD and the extension of this sink's base name
OwnName(f) == HasLayout(f, BaseFilename, 10, DailySeps)

\* this sink's files among those listed at construction
OwnFiles == {f \in ctor_args.dir \cup {ctor_args.filename} : OwnName(f)}

C34_OnlyOwnFilesTracked ==
    sink = "daily" =>
        /\ \A f \in ctor_args.dir :
              ~OwnName(f) => (f \notin Range(filenames_q_) /\ f \notin Removed /\ f \in DOMAIN fs)
        /\ (rotations = 0 /\ max_files_ > 0) =>
              MostRecent(OwnFiles, max_files_) \subseteq Range(filenames_q_)

(***************************************************************************)
(* android_sink: sink_it_ hands the message to liblog and looks at the     *)
(* result of the call.                                                     *)
(***************************************************************************)

\* #define SPDLOG_ANDROID_RETRIES 2
SPDLOG_ANDROID_RETRIES == 2

\* errno values the handler compares the result with
EPERM == 1
EAGAIN == 11

\* spdlog::level::level_enum
AndroidLevels == {"trace", "debug", "info", "warn", "err", "critical", "off"}

\* what __android_log_write / __android_log_buf_write can return: -EAGAIN,
\* -EPERM, another negative errno, zero, a number of bytes written
AndroidResults == {-EAGAIN, -EPERM, -5, 0, 7}

\* android_sink::convert_to_android_
convert_to_android_(level) ==
    CASE level = "trace" -> "ANDROID_LOG_VERBOSE"
      [] level = "debug" -> "ANDROID_LOG_DEBUG"
      [] level = "info" -> "ANDROID_LOG_INFO"
      [] level = "warn" -> "ANDROID_LOG_WARN"
      [] level = "err" -> "ANDROID_LOG_ERROR"
      [] level = "critical" -> "ANDROID_LOG_FATAL"
      [] OTHER -> "ANDROID_LOG_DEFAULT"

\* an android_sink after its constructor (write_message_ is what dlsym found;
\* it stays null below API level 30), and one message about to be logged
InitAndroid ==
    /\ calc_ = "daily"
    /\ calc_io = NoCalcCall
    /\ Unconstructed
    /\ \E level \in AndroidLevels, use_raw_msg \in BOOLEAN, write_message \in BOOLEAN :
          android = [phase |-> "msg", level |-> level, use_raw_msg_ |-> use_raw_msg,
                     write_message_ |-> write_message]

\* android_sink::sink_it_ up to the return after the first android_log call
AndroidSinkIt ==
    /\ android.phase = "msg"
    /\ LET priority == convert_to_android_(android.level)
           msg_output == IF android.use_raw_msg_ THEN "payload" ELSE "formatted"
           call == [level |-> android.level, use_raw_msg_ |-> android.use_raw_msg_,
                    write_message_ |-> android.write_message_,
                    priority |-> priority, msg_output |-> msg_output]
       IN  IF android.write_message_
           THEN android' = [phase |-> "returned", results |-> <<>>, retry_count |-> 0] @@ call
           ELSE \E ret \in AndroidResults :
                   android' = [phase |-> IF ret = -EPERM THEN "returned" ELSE "loop",
                               results |-> <<ret>>, retry_count |-> 0] @@ call
    /\ UNCHANGED <<calc_, calc_io, ctor_args, sink, mutex_kind, rotation_h_, rotation_m_,
                   truncate_, max_files_, thread_vars, env_vars, rotation_tp_, cur,
                   filenames_q_, remove_init_file_, fs, nmsg, remove_failures, rm_log, owned,
                   times, late, threw, fd_, q_misuse, rotations, rotated_from>>

\* the result of the last android_log call
AndroidRet == android.results[Len(android.results)]

\* android_sink::sink_it_, one turn of the retry loop
AndroidRetry ==
    /\ android.phase = "loop"
    /\ AndroidRet = -11 /\ android.retry_count < SPDLOG_ANDROID_RETRIES
    /\ \E ret \in AndroidResults :
          android' = [android EXCEPT !.results = Append(@, ret), !.retry_count = @ + 1]
    /\ UNCHANGED <<calc_, calc_io, ctor_args, sink, mutex_kind, rotation_h_, rotation_m_,
                   truncate_, max_files_, thread_vars, env_vars, rotation_tp_, cur,
                   filenames_q_, remove_init_file_, fs, nmsg, remove_failures, rm_log, owned,
                   times, late, threw, fd_, q_misuse, rotations, rotated_from>>

\* android_sink::sink_it_ after the retry loop
AndroidLoopExit ==
    /\ android.phase = "loop"
    /\ ~(AndroidRet = -11 /\ android.retry_count < SPDLOG_ANDROID_RETRIES)
    /\ android' = [android EXCEPT !.phase = IF AndroidRet < 0 THEN "threw" ELSE "returned"]
    /\ UNCHANGED <<calc_, calc_io, ctor_args, sink, mutex_kind, rotation_h_, rotation_m_,
                   truncate_, max_files_, thread_vars, env_vars, rotation_tp_, cur,
                   filenames_q_, remove_init_file_, fs, nmsg, remove_failures, rm_log, owned,
                   times, late, threw, fd_, q_misuse, rotations, rotated_from>>

NextAndroid == AndroidSinkIt \/ AndroidRetry \/ AndroidLoopExit

SpecAndroid == InitAndroid /\ [][NextAndroid]_vars

\* sink_it_ is over and went through android_log
AndroidLogDone == android.phase \in {"returned", "threw"} /\ ~android.write_message_

(***************************************************************************)
(* C35.  A log call of the Android sink that gets EAGAIN is retried, at    *)
(* most SPDLOG_ANDROID_RETRIES times, and then ends; a result of -EPERM    *)
(* makes the call return silently, without retry and without error; any    *)
(* other negative final result raises an error; a non-negative result      *)
(* returns normally with no further retry.                                 *)
(***************************************************************************)
C35_AndroidRetryAndResult ==
    /\ android.phase = "loop" => android.retry_count <= SPDLOG_ANDROID_RETRIES
    /\ AndroidLogDone =>
          /\ Len(android.results) = android.retry_count + 1
          /\ android.retry_count <= SPDLOG_ANDROID_RETRIES
          /\ \A i \in 1 .. Len(android.results) - 1 : android.results[i] = -EAGAIN
          /\ AndroidRet = -EAGAIN => android.retry_count = SPDLOG_ANDROID_RETRIES
          /\ AndroidRet = -EPERM => android.phase = "returned"
          /\ (AndroidRet < 0 /\ AndroidRet # -EPERM) => android.phase = "threw"
          /\ AndroidRet >= 0 => android.phase = "returned"

====
